---- MODULE Spec2Model ----
(***************************************************************************)
(* The dynamic program dependence graph builder of chiseltrace:            *)
(* GraphBuilder::process and VcdReader::read_cycle_changes of              *)
(* src/chiseltrace-rs/src/graphbuilder.rs.                                 *)
(*                                                                         *)
(* An Option<T> of the source is a sequence of length 0 (None) or 1        *)
(* (Some).  A HashMap is a function on the set of its keys.  Dynamic nodes *)
(* (Rc<RefCell<DynPDGNode>>) live in the arena `nodes`; the identity of a  *)
(* node is its index there.  processing_type is read at two places only    *)
(* (lines 223 and 245) and decides nothing but which dependencies are      *)
(* pushed, so the dependency lists of the three modes are kept side by     *)
(* side in `dependencies`, indexed by the mode, over the same input.       *)
(***************************************************************************)
EXTENDS Integers, Sequences, FiniteSets, TLC

\* ---------------------------------------------------------------- bounds
\* Cycles the VCD stream can hold: the stream ends once current_time reaches it.
MaxTime == 3

\* ------------------------------------------------------- helper operators
Some(x) == <<x>>
None == <<>>
IsSome(o) == Len(o) = 1
Get(o) == o[1]

\* A variant of Insert that keeps the value of a key the map holds.
InsertIfAbsent(m, k, v) == [x \in (DOMAIN m) \cup {k} |-> IF x \in DOMAIN m THEN m[x] ELSE v]

\* HashMap::insert: the value given replaces the one the key had.
Insert(m, k, v) == [x \in (DOMAIN m) \cup {k} |-> IF x = k THEN v ELSE m[x]]
EmptyMap == [x \in {} |-> 0]
Min2(a, b) == IF a <= b THEN a ELSE b

\* ------------------------------------------------------------ static PDG
\* PDGSpecNode (the fields process reads).
Vtx(name, kind, clocked, assigns_to, condition, assign_delay) ==
    [name |-> name, kind |-> kind, clocked |-> clocked, assigns_to |-> assigns_to,
     condition |-> condition, assign_delay |-> assign_delay]

\* PDGSpecEdge: `from` depends on `to`.
Edg(from, to, kind, condition) ==
    [from |-> from, to |-> to, kind |-> kind, condition |-> condition]

\* PDGSpecCondition
Cond(names, values) == Some([probe_name |-> names, probe_value |-> values])

\* CFGSpecStatement
Stmt(s) == [stmt_ref |-> s, pred_stmt_ref |-> None, true_branch |-> None, false_branch |-> None]
Fork(s, p, t, f) == [stmt_ref |-> s, pred_stmt_ref |-> Some(p), true_branch |-> t, false_branch |-> f]

\* Scenario "register update ordering": a wire w fed by the register q, the
\* register q fed by w, and the declaration of q with its reset value.
PdgRegister ==
    [vertices |-> <<
        Vtx("w", "Connection", FALSE, Some("w"), None, 0),
        Vtx("q", "Connection", TRUE, Some("q"), None, 0),
        Vtx("q_def", "DataDefinition", TRUE, Some("q"), None, 0) >>,
     edges |-> <<
        Edg(0, 1, "Data", None),
        Edg(1, 0, "Data", None) >>,
     predicates |-> << >>,
     cfg |-> << Stmt(0), Stmt(1), Stmt(2) >>]

\* Scenario "guarded condition": two connections to x under complementary probe
\* values inside a when/otherwise, a consumer y of x, and a register r of y.
PdgGuarded ==
    [vertices |-> <<
        Vtx("when", "ControlFlow", FALSE, None, None, 0),
        Vtx("x_a", "Connection", FALSE, Some("x"), Cond(<<"probe_sel">>, <<0>>), 0),
        Vtx("x_b", "Connection", FALSE, Some("x"), Cond(<<"probe_sel">>, <<1>>), 0),
        Vtx("y", "Connection", FALSE, Some("y"), None, 0),
        Vtx("r", "Connection", TRUE, Some("r"), None, 0),
        Vtx("r_def", "DataDefinition", TRUE, Some("r"), None, 0) >>,
     edges |-> <<
        Edg(1, 0, "Conditional", None),
        Edg(2, 0, "Conditional", None),
        Edg(3, 1, "Data", None),
        Edg(3, 2, "Data", None),
        Edg(3, 5, "Declaration", None),
        Edg(4, 3, "Data", Cond(<<"probe_sel">>, <<1>>)),
        Edg(4, 0, "Conditional", None),
        Edg(4, 5, "Declaration", None) >>,
     predicates |-> << [name |-> "pred0"] >>,
     cfg |-> << Stmt(5), Fork(0, 0, Some(<<Stmt(1), Stmt(2), Stmt(4)>>), Some(<<Stmt(2)>>)), Stmt(3) >>]

\* Scenario "delayed memory": a sequential memory written with one cycle of
\* delay through an index (mem_w), read combinationally (rd), read with one
\* cycle of delay (rdata, consumed by out) and with two cycles of delay (rdata2),
\* under an enable.
PdgMemory ==
    [vertices |-> <<
        Vtx("addr", "Connection", FALSE, Some("addr"), None, 0),
        Vtx("en", "ControlFlow", FALSE, None, None, 0),
        Vtx("mem_w", "Connection", TRUE, Some("mem"), None, 1),
        Vtx("rd", "Connection", FALSE, Some("rd"), None, 0),
        Vtx("mem_def", "DataDefinition", TRUE, Some("mem"), None, 0),
        Vtx("rdata", "Connection", FALSE, Some("rdata"), None, 1),
        Vtx("out", "Connection", FALSE, Some("out"), None, 0),
        Vtx("rdata2", "Connection", FALSE, Some("rdata2"), None, 2) >>,
     edges |-> <<
        Edg(2, 0, "Index", None),
        Edg(2, 3, "Data", None),
        Edg(2, 1, "Conditional", None),
        Edg(3, 2, "Data", None),
        Edg(3, 0, "Index", None),
        Edg(5, 0, "Index", Cond(<<"probe_sel">>, <<1>>)),
        Edg(5, 2, "Data", None),
        Edg(5, 1, "Conditional", None),
        Edg(6, 5, "Data", None),
        Edg(7, 0, "Index", None),
        Edg(7, 2, "Data", None) >>,
     predicates |-> << [name |-> "pred0"] >>,
     cfg |-> << Stmt(4), Stmt(0), Fork(1, 0, Some(<<Stmt(2), Stmt(5), Stmt(7)>>), None), Stmt(3), Stmt(6) >>]

\* A vector whose elements are connected one from the other (both connections
\* assign the symbol v), read through an index taken from the vector itself.
PdgVector ==
    [vertices |-> <<
        Vtx("v_0", "Connection", FALSE, Some("v"), None, 0),
        Vtx("v_1", "Connection", FALSE, Some("v"), None, 0),
        Vtx("y", "Connection", FALSE, Some("y"), None, 0),
        Vtx("z", "Connection", TRUE, Some("z"), None, 0) >>,
     edges |-> <<
        Edg(1, 0, "Data", None),
        Edg(2, 0, "Index", None),
        Edg(2, 1, "Data", None),
        Edg(3, 2, "Data", None) >>,
     predicates |-> << >>,
     cfg |-> << Stmt(0), Stmt(1), Stmt(2), Stmt(3) >>]

\* A register whose reset value is a wire and whose declaration is guarded, with
\* two connections to it, one of them under a guarded when.
PdgRegInit ==
    [vertices |-> <<
        Vtx("w", "Connection", FALSE, Some("w"), None, 0),
        Vtx("r_def", "DataDefinition", TRUE, Some("r"), Cond(<<"probe_sel">>, <<1>>), 0),
        Vtx("r", "Connection", TRUE, Some("r"), None, 0),
        Vtx("r_alt", "Connection", TRUE, Some("r"), Cond(<<"probe_sel">>, <<0>>), 0),
        Vtx("when", "ControlFlow", FALSE, None, Cond(<<"probe_sel">>, <<1>>), 0) >>,
     edges |-> <<
        Edg(0, 2, "Data", None),
        Edg(1, 0, "Data", None),
        Edg(2, 0, "Data", None),
        Edg(2, 4, "Conditional", None),
        Edg(3, 0, "Data", None) >>,
     predicates |-> << >>,
     cfg |-> << Stmt(0), Stmt(1), Stmt(2), Stmt(3), Stmt(4) >>]

\* The static PDGs the builder is run on.
PDGs == << PdgRegister, PdgGuarded, PdgMemory, PdgVector, PdgRegInit >>
\* The signals whose value the VCD stream of each design changes.
Headers == << {"clk", "rst"}, {"clk", "sel", "prd"}, {"clk", "sel", "prd"}, {"clk"},
              {"clk", "rst", "sel"} >>

\* ------------------------------------------------------------ VCD header
\* IdCodes of the header: the clock, the reset, one probe and one predicate signal.
ClockId == "clk"
ResetId == "rst"
\* VcdReader::probes, as find_probes builds it: IdCode -> probe paths.
Probes == [i \in {"sel"} |-> <<"probe_sel">>]
\* header.find_var for the predicates' names.
HeaderVars == [n \in {"pred0"} |-> "prd"]

Bits == {"V0", "V1"}
\* The commands a VCD stream over the signals `ids` may hold.
Commands(ids) ==
    {[type |-> "Timestamp"]}
    \cup {[type |-> "ChangeScalar", id |-> i, value |-> v] : i \in ids, v \in Bits}
    \cup {[type |-> "ChangeVector", id |-> i, value |-> <<"V1", "V0">>] : i \in ids \cap {"sel"}}

\* bitvector_to_unsigned: the last bit is the least significant one.
RECURSIVE bitvector_to_unsigned(_)
bitvector_to_unsigned(v) ==
    IF v = <<>> THEN 0
    ELSE (IF v[Len(v)] = "V1" THEN 1 ELSE 0) + 2 * bitvector_to_unsigned(SubSeq(v, 1, Len(v) - 1))


\* ---------------------------------------------------------------- state
VARIABLES
    pdg_idx,                    \* input: which static PDG GraphBuilder::new was given
    criterion,                  \* input: CriterionType
    max_timesteps,              \* input: Option<i64>
    header_vars,                \* input: the variable names the VCD header declares
    \* VcdReader
    clock_val, reset_val, current_time, changes_buffer, probe_values, probe_change_buffer,
    \* locals of read_cycle_changes, and the commands the running call has consumed
    changes, rising_edge_found, changed,
    \* GraphBuilder
    pred_values, pred_idx_to_id, dependency_state,
    \* locals of process
    eof_reached, criterion_node, delayed_statement_buffer, dependency_state_snapshots,
    \* locals of one iteration of the cycle loop
    activated_statements, new_reg_providers, controlflow_providers, new_nodes,
    delayed_statements_present, cursor,
    \* the heap: every DynPDGNode made so far, the dependency list of each under
    \* each processing mode, and the Declaration singletons of mode Full
    nodes, dependencies, decl_nodes,
    \* what dpdg_make_exportable makes of the returned node, for each mode's graph
    exported,
    \* control: the position in process, and what it returned
    pc, result

reader_vars == <<clock_val, reset_val, current_time, changes_buffer, probe_values, probe_change_buffer>>
read_locals == <<changes, rising_edge_found, changed>>
input_vars == <<pdg_idx, criterion, max_timesteps, header_vars>>
builder_vars == <<pred_values, pred_idx_to_id, dependency_state>>
process_locals == <<eof_reached, criterion_node, delayed_statement_buffer, dependency_state_snapshots>>
cycle_locals == <<activated_statements, new_reg_providers, controlflow_providers, new_nodes,
                  delayed_statements_present, cursor>>
heap_vars == <<nodes, dependencies, decl_nodes>>
export_vars == <<exported>>
vars == <<input_vars, reader_vars, read_locals, builder_vars, process_locals, cycle_locals,
          heap_vars, export_vars, pc, result>>

\* GraphBuilder.pdg
pdg == PDGs[pdg_idx]
\* linked_nodes[i].inner: the static vertex with the zero-based index i.
Vertex(i) == pdg.vertices[i + 1]
\* linked_nodes[i].dependencies: the edges that leave vertex i, in the order of pdg.edges.
LinkedDeps(i) == SelectSeq(pdg.edges, LAMBDA e : e.from = i)

Modes == {"Normal", "DataOnly", "Full"}

Statement(c) == [type |-> "Statement", c |-> c]
Signal(c) == [type |-> "Signal", c |-> c]
\* The criteria process is called with: for each PDG the name of a statement and
\* an assigned symbol, and for the first a symbol that no vertex assigns.
Criteria ==
    << {Signal("w"), Statement("q"), Signal("z")},
       {Signal("x"), Statement("r")},
       {Signal("mem"), Statement("rdata")},
       {Signal("z"), Statement("y")},
       {Signal("r"), Statement("w")} >>
\* The budgets process is called with.
Budgets == {None, Some(3)}

\* The names the constructor and init_predicates look up in the header.
Needed == {"clock", "reset"} \cup {pdg.predicates[k].name : k \in DOMAIN pdg.predicates}
\* The headers process is run on: one that declares every name looked up, and
\* those that lack one of them.
HeaderChoices == {Needed} \cup {Needed \ {x} : x \in Needed}

\* ----------------------------------------------------------------- Init
\* The fields as GraphBuilder::new and VcdReader::new set them once the header
\* lookups succeed, and the locals process declares on entry.
Init ==
    /\ pdg_idx \in DOMAIN PDGs
    /\ criterion \in Criteria[pdg_idx]
    /\ max_timesteps \in Budgets
    /\ header_vars \in HeaderChoices
    /\ clock_val = "X" /\ reset_val = "X" /\ current_time = 0
    /\ changes_buffer = <<>> /\ probe_values = EmptyMap /\ probe_change_buffer = <<>>
    /\ changes = <<>> /\ rising_edge_found = FALSE /\ changed = {}
    /\ pred_values = EmptyMap /\ pred_idx_to_id = <<>> /\ dependency_state = EmptyMap
    /\ eof_reached = FALSE /\ criterion_node = None
    /\ delayed_statement_buffer = <<>> /\ dependency_state_snapshots = EmptyMap
    /\ activated_statements = <<>> /\ new_reg_providers = EmptyMap
    /\ controlflow_providers = EmptyMap /\ new_nodes = <<>>
    /\ delayed_statements_present = FALSE /\ cursor = 0
    /\ nodes = <<>> /\ dependencies = [m \in Modes |-> <<>>] /\ decl_nodes = <<>>
    /\ exported = None
    /\ pc = "new" /\ result = None

\* -------------------------------------------------------- VcdReader::new
\* Lines 377-378: header.find_var(..).ok_or(Error::ClockNotFoundError)? for the
\* clock and then for the reset.
New ==
    /\ pc = "new"
    /\ IF "clock" \in header_vars /\ "reset" \in header_vars
       THEN pc' = "init" /\ UNCHANGED result
       ELSE pc' = "failed" /\ result' = Some([ok |-> FALSE, err |-> "ClockNotFoundError"])
    /\ UNCHANGED <<input_vars, reader_vars, read_locals, builder_vars, process_locals,
                   cycle_locals, heap_vars, exported>>

\* ------------------------------------------------------ init_predicates
RECURSIVE InsertAll(_, _, _)
InsertAll(m, keys, v) ==
    IF keys = <<>> THEN m ELSE InsertAll(Insert(m, keys[1], v), Tail(keys), v)

\* A variant of find_var that finds every name.
find_var_any(hierarchy) == Some(HeaderVars[hierarchy])

\* Lines 420-424: the IdCode of the name, if the header declares it.
find_var(hierarchy) ==
    IF hierarchy \in header_vars THEN Some(HeaderVars[hierarchy]) ELSE None

\* The predicates before the first one whose name is not found: the loop of
\* init_predicates handles these and returns the error at the next.
RECURSIVE FoundPrefix(_)
FoundPrefix(preds) ==
    IF preds = <<>> \/ find_var(preds[1].name) = None THEN <<>>
    ELSE <<Get(find_var(preds[1].name))>> \o FoundPrefix(Tail(preds))

\* find_var of each predicate's name, in the order of pdg.predicates.
PredIds == FoundPrefix(pdg.predicates)

InitPredicates ==
    /\ pc = "init"
    /\ pred_values' = InsertAll(pred_values, PredIds, FALSE)
    /\ pred_idx_to_id' = pred_idx_to_id \o PredIds
    /\ IF Len(PredIds) = Len(pdg.predicates)
       THEN pc' = "loop" /\ UNCHANGED result
       ELSE pc' = "failed" /\ result' = Some([ok |-> FALSE, err |-> "VariableNotFoundError"])
    /\ UNCHANGED <<input_vars, reader_vars, read_locals, dependency_state, process_locals,
                   cycle_locals, heap_vars, exported>>

\* ------------------------------------------------------- the cycle loop
\* A variant of WithinBudget that compares current_time itself with the budget.
WithinBudgetUndoubled ==
    IF IsSome(max_timesteps) THEN current_time <= Get(max_timesteps) ELSE TRUE

\* current_time * 2 <= max_timesteps.unwrap_or(i64::MAX): without a budget the
\* comparison is with i64::MAX, which no current_time of a stream reaches.
WithinBudget ==
    IF IsSome(max_timesteps) THEN current_time * 2 <= Get(max_timesteps) ELSE TRUE

\* The loop condition of process, and the entry of read_cycle_changes.
LoopEnter ==
    /\ pc = "loop"
    /\ ~eof_reached /\ WithinBudget
    /\ changes' = <<>> /\ rising_edge_found' = FALSE /\ changed' = {}
    /\ pc' = "read"
    /\ UNCHANGED <<input_vars, reader_vars, builder_vars, process_locals, cycle_locals,
                   heap_vars, result, exported>>

LoopExit ==
    /\ pc = "loop"
    /\ ~(~eof_reached /\ WithinBudget)
    /\ pc' = "finish"
    /\ UNCHANGED <<input_vars, reader_vars, read_locals, builder_vars, process_locals,
                   cycle_locals, heap_vars, result, exported>>

\* ---------------------------------------------------- read_cycle_changes
RECURSIVE InsertPairs(_, _)
InsertPairs(m, pairs) ==
    IF pairs = <<>> THEN m ELSE InsertPairs(Insert(m, pairs[1][1], pairs[1][2]), Tail(pairs))

\* One (probe, value) entry for each path of the probe.
ProbeChanges(id, v) == [k \in DOMAIN Probes[id] |-> <<Probes[id][k], v>>]

\* The stream is finite: it holds no command past the cycle MaxTime - 1.  In the
\* part of it that one call of read_cycle_changes consumes, one signal other than
\* the clock changes, once, or none does.
StreamHasMore == current_time + 1 < MaxTime

\* A variant of AdvanceAtEnd that leaves the time as the loop left it.
AdvanceNever(last_time, t) == t

\* A variant of AdvanceAtEnd that advances whether or not the loop did.
AdvanceAlways(last_time, t) == t + 1

\* Lines 485-487: the time is advanced after the loop unless the loop did it.
AdvanceAtEnd(last_time, t) == IF last_time = t THEN t + 1 ELSE t

\* A variant of TimestampFlush that commits the buffer at every Timestamp.
TimestampFlushAlways(rising, pv, buf) == InsertPairs(pv, buf)

\* Lines 434-449: a Timestamp commits the buffered probe changes to probe_values
\* unless the rising edge has been seen in this call.
TimestampFlush(rising, pv, buf) == IF rising THEN pv ELSE InsertPairs(pv, buf)

\* A variant of Delivered that appends the buffer at every Timestamp.
DeliveredAlways(rising, cs, buf) == cs \o buf

\* Lines 438-443: a Timestamp appends changes_buffer to the changes of the call
\* unless the rising edge has been seen in this call.
Delivered(rising, cs, buf) == IF rising THEN cs ELSE cs \o buf

\* A Timestamp once the rising edge has been seen ends the call: eof = false.
ReadTimestampBreak ==
    /\ pc = "read" /\ StreamHasMore
    /\ rising_edge_found
    /\ current_time' = AdvanceAtEnd(current_time, current_time + 1)
    /\ eof_reached' = FALSE
    /\ probe_values' = TimestampFlush(rising_edge_found, probe_values, probe_change_buffer)
    /\ changes' = Delivered(rising_edge_found, changes, changes_buffer)
    /\ pc' = "activate"
    /\ UNCHANGED <<input_vars, clock_val, reset_val, changes_buffer,
                   probe_change_buffer, rising_edge_found, changed, builder_vars, criterion_node,
                   delayed_statement_buffer, dependency_state_snapshots, cycle_locals,
                   heap_vars, result, exported>>

\* Any other command of the stream: the body of the for loop for one command.
ReadCommand(command) ==
    /\ pc = "read" /\ StreamHasMore
    /\ ~(command.type = "Timestamp" /\ rising_edge_found)
    /\ IF command.type = "Timestamp" \/ command.id = ClockId
       THEN UNCHANGED changed
       ELSE changed = {} /\ changed' = {command.id}
    /\ CASE command.type = "Timestamp" ->
              /\ changes' = Delivered(rising_edge_found, changes, changes_buffer)
              /\ changes_buffer' = <<>>
              /\ probe_values' = TimestampFlush(rising_edge_found, probe_values,
                                                probe_change_buffer)
              /\ probe_change_buffer' = <<>>
              /\ UNCHANGED <<clock_val, reset_val, rising_edge_found>>
         [] command.type = "ChangeScalar" /\ command.id = ClockId ->
              /\ rising_edge_found' =
                    (rising_edge_found \/ (clock_val = "V0" /\ command.value = "V1"))
              /\ clock_val' = command.value
              /\ UNCHANGED <<reset_val, changes, changes_buffer, probe_values, probe_change_buffer>>
         [] command.type = "ChangeScalar" /\ command.id = ResetId ->
              /\ reset_val' = command.value
              /\ UNCHANGED <<clock_val, rising_edge_found, changes, changes_buffer,
                             probe_values, probe_change_buffer>>
         [] command.type = "ChangeScalar" /\ command.id \notin {ClockId, ResetId} ->
              /\ IF command.id \in DOMAIN Probes
                 THEN /\ probe_change_buffer' = probe_change_buffer \o
                            ProbeChanges(command.id, IF command.value = "V1" THEN 1 ELSE 0)
                      /\ UNCHANGED changes_buffer
                 ELSE /\ changes_buffer' = Append(changes_buffer,
                                                  [id |-> command.id, value |-> command.value])
                      /\ UNCHANGED probe_change_buffer
              /\ UNCHANGED <<clock_val, reset_val, rising_edge_found, changes, probe_values>>
         [] command.type = "ChangeVector" ->
              /\ IF command.id \in DOMAIN Probes
                 THEN probe_change_buffer' = probe_change_buffer \o
                            ProbeChanges(command.id, bitvector_to_unsigned(command.value))
                 ELSE UNCHANGED probe_change_buffer
              /\ UNCHANGED <<clock_val, reset_val, rising_edge_found, changes, changes_buffer,
                             probe_values>>
    /\ UNCHANGED <<input_vars, current_time, builder_vars, process_locals, cycle_locals,
                   heap_vars, pc, result, exported>>

\* The stream ends: eof = true, and current_time is advanced all the same.
ReadEof ==
    /\ pc = "read"
    /\ current_time' = AdvanceAtEnd(current_time, current_time)
    /\ eof_reached' = TRUE
    /\ pc' = "activate"
    /\ UNCHANGED <<input_vars, clock_val, reset_val, changes_buffer, probe_values,
                   probe_change_buffer, read_locals, builder_vars, criterion_node,
                   delayed_statement_buffer, dependency_state_snapshots, cycle_locals,
                   heap_vars, result, exported>>

\* corrected_timestamp
Tau == current_time - 1

\* ------------------------------------------------ get_activated_statements
\* A variant of Reverse that keeps the order.
Unreversed(q) == q

\* Lines 343, 352 and 355: stack.reverse() and .rev().
Reverse(q) == [k \in 1..Len(q) |-> q[Len(q) + 1 - k]]

\* A variant of UpdatePreds that takes the first change of each predicate.
UpdatePredsFirst(pv, cs) ==
    [id \in DOMAIN pv |->
        LET hits == {k \in DOMAIN cs : cs[k].id = id}
        IN  IF hits = {} THEN pv[id]
            ELSE cs[CHOOSE k \in hits : \A j \in hits : k <= j].value = "V1"]

\* Lines 334-338: a change of a predicate's signal sets the predicate.
RECURSIVE UpdatePreds(_, _)
UpdatePreds(pv, cs) ==
    IF cs = <<>> THEN pv
    ELSE UpdatePreds(IF cs[1].id \in DOMAIN pv
                     THEN [pv EXCEPT ![cs[1].id] = (cs[1].value = "V1")]
                     ELSE pv,
                     Tail(cs))

\* Lines 340-360: the stack's top is its last element.
RECURSIVE WalkCfg(_, _, _)
WalkCfg(stack, activated, pv) ==
    IF stack = <<>> THEN activated
    ELSE LET node == stack[Len(stack)]
             rest == SubSeq(stack, 1, Len(stack) - 1)
             act == Append(activated, node.stmt_ref)
         IN  IF IsSome(node.pred_stmt_ref)
             THEN LET pred_id == pred_idx_to_id[Get(node.pred_stmt_ref) + 1]
                      pred_active == pv[pred_id]
                  IN  IF pred_active
                      THEN IF IsSome(node.true_branch)
                           THEN WalkCfg(rest \o Reverse(Get(node.true_branch)), act, pv)
                           ELSE WalkCfg(rest, act, pv)
                      ELSE IF IsSome(node.false_branch)
                           THEN WalkCfg(rest \o Reverse(Get(node.false_branch)), act, pv)
                           ELSE WalkCfg(rest, act, pv)
             ELSE WalkCfg(rest, act, pv)

get_activated_statements(pv) == WalkCfg(Reverse(pdg.cfg), <<>>, pv)

\* ------------------------------------- process: lines 121-150 of a cycle
\* Lines 129-135: the delayed statements whose time has come, and the others.
ReadyStatements(buf, t) ==
    LET ready == SelectSeq(buf, LAMBDA d : d[1] = t)
    IN  [k \in DOMAIN ready |-> ready[k][2]]

\* A variant of StillDelayed that keeps the statements that fire.
StillDelayedKept(buf, t) == buf

\* Lines 130-135: the filter keeps the entries of another fire cycle.
StillDelayed(buf, t) == SelectSeq(buf, LAMBDA d : d[1] # t)

\* A variant of Immediate that keeps the delayed statements in the cycle that
\* activates them.
ImmediateUnfiltered(stmts) == stmts

\* Lines 138-141: the partition of the activated statements by assign_delay.
Immediate(stmts) == SelectSeq(stmts, LAMBDA st : Vertex(st).assign_delay = 0)
Delayed(stmts) == SelectSeq(stmts, LAMBDA st : Vertex(st).assign_delay # 0)

\* Lines 144-148: each delayed statement is queued for corrected_timestamp + assign_delay.
\* A variant of Enqueue that queues each statement for the running cycle.
EnqueueUndelayed(stmts, t) == [k \in DOMAIN stmts |-> <<t, stmts[k]>>]

\* Lines 144-148: each delayed statement is queued for the cycle assign_delay later.
Enqueue(stmts, t) == [k \in DOMAIN stmts |-> <<t + Vertex(stmts[k]).assign_delay, stmts[k]>>]

Activate ==
    /\ pc = "activate"
    /\ LET pv == UpdatePreds(pred_values, changes)
           activated == get_activated_statements(pv)
           ready_statements == ReadyStatements(delayed_statement_buffer, Tau)
           delayed_statements == Delayed(activated)
       IN  /\ pred_values' = pv
           /\ delayed_statement_buffer' =
                 StillDelayed(delayed_statement_buffer, Tau) \o Enqueue(delayed_statements, Tau)
           /\ delayed_statements_present' = (delayed_statements # <<>>)
           /\ activated_statements' = Immediate(activated) \o ready_statements
           /\ pc' = IF Immediate(activated) \o ready_statements = <<>> THEN "snapshot" ELSE "create"
    /\ new_reg_providers' = EmptyMap
    /\ controlflow_providers' = EmptyMap
    /\ new_nodes' = <<>>
    /\ cursor' = 1
    /\ UNCHANGED <<input_vars, reader_vars, read_locals, pred_idx_to_id, dependency_state,
                   eof_reached, criterion_node, dependency_state_snapshots, heap_vars, result, exported>>

\* ------------------------------------- process: lines 152-198, one statement
\* A variant of ConditionsSatisfied that lets a probe without a value pass.
ConditionsSatisfiedIfKnown(condition, probe_vals) ==
    IF IsSome(condition)
    THEN LET conds == Get(condition)
         IN  \A k \in 1..Min2(Len(conds.probe_name), Len(conds.probe_value)) :
                conds.probe_name[k] \in DOMAIN probe_vals
                    => conds.probe_value[k] = probe_vals[conds.probe_name[k]]
    ELSE TRUE

\* Lines 161-171 and 227-239: a conjunction over the zipped (probe, value) pairs;
\* a probe without a value fails it, no condition holds.
ConditionsSatisfied(condition, probe_vals) ==
    IF IsSome(condition)
    THEN LET conds == Get(condition)
         IN  \A k \in 1..Min2(Len(conds.probe_name), Len(conds.probe_value)) :
                /\ conds.probe_name[k] \in DOMAIN probe_vals
                /\ conds.probe_value[k] = probe_vals[conds.probe_name[k]]
    ELSE TRUE

\* A variant of NodeTimestamp that gives every node the cycle's timestamp.
NodeTimestampOfCycle(clocked, t) == t

\* Line 157: i64::saturating_sub saturates at i64::MIN, which no timestamp reaches.
NodeTimestamp(clocked, t) == IF clocked THEN t ELSE t - 1

\* A variant of ResetPath that takes the reset path in the first cycle only.
ResetPathFirstCycle(t, rv) == t = 0

\* Line 181: the reset path of a register's declaration.
ResetPath(t, rv) == t = 0 \/ rv = "V1"

\* A variant of Registration that writes a register's node to dependency_state
\* in the cycle that makes it.
RegistrationEager(v, satisfied, t, rv) ==
    IF satisfied /\ IsSome(v.assigns_to)
    THEN IF v.clocked /\ v.kind = "DataDefinition"
         THEN IF t = 0 \/ rv = "V1" THEN "reset" ELSE "none"
         ELSE "state"
    ELSE "none"

\* A variant of Registration that does not look at the vertex's condition.
RegistrationUnguarded(v, satisfied, t, rv) ==
    IF IsSome(v.assigns_to)
    THEN IF v.clocked
         THEN IF v.kind = "DataDefinition"
              THEN IF t = 0 \/ rv = "V1" THEN "reset" ELSE "none"
              ELSE "reg"
         ELSE "state"
    ELSE "none"

\* A variant of Registration that defers the node of every vertex that assigns a
\* symbol to the end of the cycle.
RegistrationDeferred(v, satisfied, t, rv) ==
    IF satisfied /\ IsSome(v.assigns_to)
    THEN IF v.clocked /\ v.kind = "DataDefinition"
         THEN IF t = 0 \/ rv = "V1" THEN "reset" ELSE "none"
         ELSE "reg"
    ELSE "none"

\* A variant of Registration that defers the node of a register's declaration
\* which does not take the reset path.
RegistrationElseDeferred(v, satisfied, t, rv) ==
    IF satisfied /\ IsSome(v.assigns_to)
    THEN IF v.clocked
         THEN IF v.kind = "DataDefinition" /\ (t = 0 \/ rv = "V1") THEN "reset" ELSE "reg"
         ELSE "state"
    ELSE "none"

\* Lines 175-192: what the statement's node does to the providers.  "state": written
\* to dependency_state at once; "reset": the same, with the timestamp decremented;
\* "reg": kept in new_reg_providers for the end of the cycle; "none".
Registration(v, satisfied, t, rv) ==
    IF satisfied /\ IsSome(v.assigns_to)
    THEN IF v.clocked
         THEN IF v.kind = "DataDefinition"
              THEN IF ResetPath(t, rv) THEN "reset" ELSE "none"
              ELSE "reg"
         ELSE "state"
    ELSE "none"

\* A variant of ProvidedSymbol that registers the node under the vertex's name.
ProvidedName(v) == v.name

\* Line 176: if let Some(symb) = &node.inner.assigns_to, the key of the inserts.
ProvidedSymbol(v) == Get(v.assigns_to)

\* A variant of ProvidesControlFlow that registers the node whatever its condition.
ProvidesControlFlowAlways(node, satisfied) == node.kind = "ControlFlow"

\* Lines 194-196: a ControlFlow node whose condition holds becomes the provider of
\* its vertex for the running cycle.
ProvidesControlFlow(node, satisfied) == satisfied /\ node.kind = "ControlFlow"

CreateNode ==
    /\ pc = "create"
    /\ LET stmt == activated_statements[cursor]
           node == Vertex(stmt)
           id == Len(nodes) + 1
           satisfied == ConditionsSatisfied(node.condition, probe_values)
           how == Registration(node, satisfied, Tau, reset_val)
           ts == NodeTimestamp(node.clocked, Tau)
       IN  /\ nodes' = Append(nodes, [inner |-> stmt,
                                      timestamp |-> IF how = "reset" THEN ts - 1 ELSE ts])
           /\ dependencies' = [m \in Modes |-> Append(dependencies[m], <<>>)]
           /\ new_nodes' = Append(new_nodes, <<stmt, id>>)
           /\ dependency_state' =
                 IF how \in {"state", "reset"}
                 THEN Insert(dependency_state, ProvidedSymbol(node), id)
                 ELSE dependency_state
           /\ new_reg_providers' =
                 IF how = "reg"
                 THEN Insert(new_reg_providers, ProvidedSymbol(node), id)
                 ELSE new_reg_providers
           /\ controlflow_providers' =
                 IF ProvidesControlFlow(node, satisfied)
                 THEN Insert(controlflow_providers, node, id)
                 ELSE controlflow_providers
    /\ IF cursor = Len(activated_statements)
       THEN pc' = "resolve" /\ cursor' = 1
       ELSE pc' = "create" /\ cursor' = cursor + 1
    /\ UNCHANGED <<input_vars, reader_vars, read_locals, pred_values, pred_idx_to_id,
                   process_locals, activated_statements, delayed_statements_present,
                   decl_nodes, result, exported>>

\* ------------------------------------- process: lines 199-276, one new node
\* A variant of AlreadyProcessed that never finds the symbol served.
NeverProcessed(dep_node, deps_processed) == FALSE

\* Lines 213-221: the provider's symbol has been served for this consumer.
AlreadyProcessed(dep_node, deps_processed) ==
    IsSome(dep_node.assigns_to) /\ Get(dep_node.assigns_to) \in deps_processed

\* A variant of SkippedByMode under which no mode skips an edge.
SkippedByNoMode(processing_type, kind) == FALSE

\* Lines 223-225: DataOnly resolves the Data edges only.
SkippedByMode(processing_type, kind) == processing_type = "DataOnly" /\ kind # "Data"

\* A variant of ResolutionState that reads every kind from the selected context.
ResolutionStateOfContext(kind, dep_state) == dep_state

\* Lines 255-259: a Data dependency is looked up in the live dependency_state, an
\* Index dependency in the dep_state of the read context.
ResolutionState(kind, dep_state) == IF kind = "Data" THEN dependency_state ELSE dep_state

\* The fold over the node's static dependencies under the processing mode
\* processing_type: acc holds the dependencies pushed so far, deps_processed, and
\* the Declaration nodes made.  dep_state and probe_vals are the read context of
\* lines 202-207.  A dependency is [node, kind]; the node of a Declaration
\* dependency is an index of decl_nodes, any other an index of nodes.
ResolveEdge(acc, dep_edge, processing_type, dep_state, probe_vals, t, n_decl) ==
    LET dep_node == Vertex(dep_edge.to)
    IN  IF AlreadyProcessed(dep_node, acc.deps_processed)
        THEN acc
        ELSE IF SkippedByMode(processing_type, dep_edge.kind)
        THEN acc
        ELSE IF ~ConditionsSatisfied(dep_edge.condition, probe_vals)
        THEN acc
        ELSE CASE dep_edge.kind = "Declaration" ->
                    IF processing_type = "Full"
                    THEN [acc EXCEPT
                            !.decls = Append(@, [inner |-> dep_edge.to, timestamp |-> t - 1]),
                            !.deps = Append(@, [node |-> n_decl + Len(acc.decls) + 1,
                                                kind |-> "Declaration"])]
                    ELSE acc
               [] dep_edge.kind \in {"Data", "Index"} ->
                    LET state == ResolutionState(dep_edge.kind, dep_state)
                    IN  IF IsSome(dep_node.assigns_to)
                        THEN LET dep_str == Get(dep_node.assigns_to)
                             IN  [acc EXCEPT
                                    !.deps = IF dep_str \in DOMAIN state
                                             THEN Append(@, [node |-> state[dep_str],
                                                             kind |-> dep_edge.kind])
                                             ELSE @,
                                    !.deps_processed = @ \cup {dep_str}]
                        ELSE acc
               [] dep_edge.kind = "Conditional" ->
                    IF dep_node \in DOMAIN controlflow_providers
                    THEN [acc EXCEPT
                            !.deps = Append(@, [node |-> controlflow_providers[dep_node],
                                                kind |-> "Conditional"])]
                    ELSE acc
               [] OTHER -> acc

RECURSIVE ResolveEdges(_, _, _, _, _, _, _)
ResolveEdges(acc, edges, processing_type, dep_state, probe_vals, t, n_decl) ==
    IF edges = <<>> THEN acc
    ELSE ResolveEdges(ResolveEdge(acc, edges[1], processing_type, dep_state, probe_vals, t, n_decl),
                      Tail(edges), processing_type, dep_state, probe_vals, t, n_decl)

\* Lines 201-207: a delayed statement reads the snapshot of its activation cycle.
UsesSnapshot(stmt) == Vertex(stmt).assign_delay > 0
SnapshotKey(stmt, t) == t - Vertex(stmt).assign_delay

Resolved(stmt, processing_type) ==
    LET ctx == IF UsesSnapshot(stmt)
               THEN dependency_state_snapshots[SnapshotKey(stmt, Tau)]
               ELSE <<dependency_state, probe_values>>
    IN  ResolveEdges([deps |-> <<>>, deps_processed |-> {}, decls |-> <<>>],
                     LinkedDeps(stmt), processing_type, ctx[1], ctx[2], Tau, Len(decl_nodes))

\* A variant of ResolvedNode that takes the first node ever made for the statement.
ResolvedNodeOfStatement(entry) ==
    CHOOSE n \in 1..Len(nodes) :
        nodes[n].inner = entry[1] /\ \A o \in 1..(n - 1) : nodes[o].inner # entry[1]

\* Line 199: for (stmt, node) in &new_nodes, the node the dependencies are pushed to.
ResolvedNode(entry) == entry[2]

ResolveNode ==
    /\ pc = "resolve"
    /\ LET stmt == new_nodes[cursor][1]
           id == ResolvedNode(new_nodes[cursor])
       IN  IF UsesSnapshot(stmt) /\ SnapshotKey(stmt, Tau) \notin DOMAIN dependency_state_snapshots
           THEN \* indexing the HashMap with a key it does not hold panics
                /\ pc' = "panic"
                /\ UNCHANGED <<dependencies, decl_nodes, cursor>>
           ELSE /\ dependencies' =
                      [m \in Modes |-> [dependencies[m] EXCEPT ![id] = @ \o Resolved(stmt, m).deps]]
                /\ decl_nodes' = decl_nodes \o Resolved(stmt, "Full").decls
                /\ IF cursor = Len(new_nodes)
                   THEN pc' = "snapshot" /\ cursor' = 1
                   ELSE pc' = "resolve" /\ cursor' = cursor + 1
    /\ UNCHANGED <<input_vars, reader_vars, read_locals, builder_vars, process_locals,
                   activated_statements, new_reg_providers, controlflow_providers, new_nodes,
                   delayed_statements_present, nodes, result, exported>>

\* ------------------------------------- process: lines 278-294, end of a cycle
\* A variant of Clone that holds the register providers of the running cycle.
CloneCommitted(state, probes) ==
    <<[x \in (DOMAIN state) \cup (DOMAIN new_reg_providers) |->
          IF x \in DOMAIN new_reg_providers THEN new_reg_providers[x] ELSE state[x]],
      probes>>

\* Line 281: (self.dependency_state.clone(), self.reader.probe_values.clone()).
Clone(state, probes) == <<state, probes>>

\* A variant of StoreSnapshot that keeps the snapshots of the cycles with a
\* delayed statement still queued, and drops the others.
StoreSnapshotPending(snaps, present, t, snap) ==
    LET all == IF present THEN Insert(snaps, t, snap) ELSE snaps
        pending == {delayed_statement_buffer[k][1]
                        - Vertex(delayed_statement_buffer[k][2]).assign_delay
                      : k \in DOMAIN delayed_statement_buffer}
    IN  [k \in (DOMAIN all) \cap pending |-> all[k]]

\* Lines 280-282: the insert under delayed_statements_present; no entry of
\* dependency_state_snapshots is ever removed.
StoreSnapshot(snaps, present, t, snap) == IF present THEN Insert(snaps, t, snap) ELSE snaps

SaveSnapshot ==
    /\ pc = "snapshot"
    /\ dependency_state_snapshots' =
          StoreSnapshot(dependency_state_snapshots, delayed_statements_present, Tau,
                        Clone(dependency_state, probe_values))
    /\ pc' = "capture"
    /\ UNCHANGED <<input_vars, reader_vars, read_locals, builder_vars, eof_reached,
                   criterion_node, delayed_statement_buffer, cycle_locals, heap_vars, result, exported>>

\* Lines 285-288.
Matches(stmt) ==
    IF criterion.type = "Statement"
    THEN Vertex(stmt).name = criterion.c
    ELSE IsSome(Vertex(stmt).assigns_to) /\ Get(Vertex(stmt).assigns_to) = criterion.c

\* A variant of Capture that keeps the first matching node it has seen.
CaptureFirst(cn, ns) ==
    LET hits == SelectSeq(ns, LAMBDA e : Matches(e[1]))
    IN  IF IsSome(cn) \/ hits = <<>> THEN cn ELSE Some(hits[1][2])

\* Lines 284-291: the last matching node of new_nodes, if any, is remembered.
RECURSIVE Capture(_, _)
Capture(cn, ns) ==
    IF ns = <<>> THEN cn
    ELSE Capture(IF Matches(ns[1][1]) THEN Some(ns[1][2]) ELSE cn, Tail(ns))

CaptureCriterion ==
    /\ pc = "capture"
    /\ criterion_node' = Capture(criterion_node, new_nodes)
    /\ pc' = "commit"
    /\ UNCHANGED <<input_vars, reader_vars, read_locals, builder_vars, eof_reached,
                   delayed_statement_buffer, dependency_state_snapshots, cycle_locals,
                   heap_vars, result, exported>>

\* Lines 292-294: the keys of new_reg_providers are distinct, so the order of the
\* HashMap's iteration does not show.
Merge(state, regs) ==
    [x \in (DOMAIN state) \cup (DOMAIN regs) |-> IF x \in DOMAIN regs THEN regs[x] ELSE state[x]]

CommitRegisters ==
    /\ pc = "commit"
    /\ dependency_state' = Merge(dependency_state, new_reg_providers)
    /\ pc' = "loop"
    /\ UNCHANGED <<input_vars, reader_vars, read_locals, pred_values, pred_idx_to_id,
                   process_locals, cycle_locals, heap_vars, result, exported>>

\* ------------------------------------- process: lines 314-320
\* A variant of ExportedNode that returns the captured node for either criterion.
ExportedNodeCaptured == criterion_node

ExportedNode ==
    IF criterion.type = "Statement"
    THEN criterion_node
    ELSE IF criterion.c \in DOMAIN dependency_state
         THEN Some(dependency_state[criterion.c])
         ELSE None

\* A variant of ok_or that falls back on the node made last.
ok_or_last(o) ==
    IF IsSome(o) THEN [ok |-> TRUE, node |-> Get(o)]
    ELSE IF nodes # <<>> THEN [ok |-> TRUE, node |-> Len(nodes)]
    ELSE [ok |-> FALSE, err |-> "StatementLookupError"]

\* Line 318: .ok_or(Error::StatementLookupError(..))?
ok_or(o) ==
    IF IsSome(o) THEN [ok |-> TRUE, node |-> Get(o)]
    ELSE [ok |-> FALSE, err |-> "StatementLookupError"]

Finish ==
    /\ pc = "finish"
    /\ result' = Some(ok_or(ExportedNode))
    /\ pc' = "done"
    /\ UNCHANGED <<input_vars, reader_vars, read_locals, builder_vars, process_locals,
                   cycle_locals, heap_vars, exported>>

\* ------------------------------------------- conversion.rs: dpdg_make_exportable
\* An Rc<RefCell<DynPDGNode>>: a node of the arena, or one of the Declaration
\* nodes, which have no dependencies.
Ref(dep) == [decl |-> dep.kind = "Declaration", id |-> dep.node]
RefDeps(m, ref) == IF ref.decl THEN <<>> ELSE dependencies[m][ref.id]
RefInner(ref) == IF ref.decl THEN Vertex(decl_nodes[ref.id].inner) ELSE Vertex(nodes[ref.id].inner)
RefTimestamp(ref) == IF ref.decl THEN decl_nodes[ref.id].timestamp ELSE nodes[ref.id].timestamp

\* A variant of find_position that compares the nodes' contents, not the pointers.
find_position_by_value(scanned_nodes, node) ==
    LET hits == {i \in DOMAIN scanned_nodes :
                    /\ RefInner(scanned_nodes[i]) = RefInner(node)
                    /\ RefTimestamp(scanned_nodes[i]) = RefTimestamp(node)}
    IN  IF hits = {} THEN None ELSE Some((CHOOSE i \in hits : \A j \in hits : i <= j) - 1)

\* LinkedNodeSet::find_position: the zero-based index of the pointer, if scanned.
find_position(scanned_nodes, node) ==
    LET hits == {i \in DOMAIN scanned_nodes : scanned_nodes[i] = node}
    IN  IF hits = {} THEN None ELSE Some((CHOOSE i \in hits : TRUE) - 1)

\* A variant of push that returns the length after the node is added.
push_length(scanned_nodes) == Len(scanned_nodes) + 1

\* LinkedNodeSet::push of a node not yet scanned: the index returned is the
\* length before the node is added.
push(scanned_nodes) == Len(scanned_nodes)

\* HashSet::insert of an edge; the sequence stands for the set, the order of the
\* final Vec being that of the HashSet's iteration.
EdgeInsert(edges, e) ==
    IF \E i \in DOMAIN edges : edges[i] = e THEN edges ELSE Append(edges, e)

\* A variant of EdgeClocked that takes the bit of the node depended on.
EdgeClockedOfDep(node, dep) == RefInner(dep).clocked

\* Line 385: clocked: borrowed_node.inner.clocked, the bit of the popped node.
EdgeClocked(node, dep) == RefInner(node).clocked

\* Lines 377-386: the dependencies of the popped node, in order.
RECURSIVE ScanDeps(_, _, _, _)
ScanDeps(st, this_idx, node, deps) ==
    IF deps = <<>> THEN st
    ELSE LET dep == Ref(deps[1])
             pos == find_position(st.scanned_nodes, dep)
             st1 == IF IsSome(pos) THEN st
                    ELSE [st EXCEPT !.stack = Append(@, dep),
                                    !.scanned_nodes = Append(@, dep)]
             dep_idx == IF IsSome(pos) THEN Get(pos) ELSE push(st.scanned_nodes)
         IN  ScanDeps([st1 EXCEPT !.edges = EdgeInsert(@, [from |-> this_idx, to |-> dep_idx,
                                                          kind |-> deps[1].kind,
                                                          clocked |-> EdgeClocked(node, dep)])],
                      this_idx, node, Tail(deps))

\* Lines 362-387: the loop over the stack.
RECURSIVE ExportLoop(_, _)
ExportLoop(m, st) ==
    IF st.stack = <<>> THEN st
    ELSE LET node == st.stack[Len(st.stack)]
             pos == find_position(st.scanned_nodes, node)
             st1 == [st EXCEPT !.stack = SubSeq(@, 1, Len(@) - 1),
                               !.scanned_nodes = IF IsSome(pos) THEN @ ELSE Append(@, node)]
             this_idx == IF IsSome(pos) THEN Get(pos) ELSE push(st.scanned_nodes)
         IN  ExportLoop(m, ScanDeps(st1, this_idx, node, RefDeps(m, node)))

\* Lines 389-397; scanned_nodes is kept beside the vertices made of it.
dpdg_make_exportable(m, root) ==
    LET st == ExportLoop(m, [stack |-> <<root>>, scanned_nodes |-> <<>>, edges |-> <<>>])
    IN  [scanned_nodes |-> st.scanned_nodes,
         vertices |-> [i \in DOMAIN st.scanned_nodes |->
                          [name |-> RefInner(st.scanned_nodes[i]).name,
                           kind |-> RefInner(st.scanned_nodes[i]).kind,
                           clocked |-> RefInner(st.scanned_nodes[i]).clocked,
                           timestamp |-> RefTimestamp(st.scanned_nodes[i])]],
         edges |-> st.edges]

\* The caller hands the node process returned to dpdg_make_exportable.
Export ==
    /\ pc = "done" /\ Get(result).ok
    /\ exported' = Some([m \in Modes |->
                            dpdg_make_exportable(m, [decl |-> FALSE, id |-> Get(result).node])])
    /\ pc' = "exported"
    /\ UNCHANGED <<input_vars, reader_vars, read_locals, builder_vars, process_locals,
                   cycle_locals, heap_vars, result>>

\* ------------------------------------------------------------------ Next
Next ==
    \/ New
    \/ InitPredicates
    \/ LoopEnter
    \/ LoopExit
    \/ ReadTimestampBreak
    \/ \E command \in Commands(Headers[pdg_idx]) : ReadCommand(command)
    \/ ReadEof
    \/ Activate
    \/ CreateNode
    \/ ResolveNode
    \/ SaveSnapshot
    \/ CaptureCriterion
    \/ CommitRegisters
    \/ Finish
    \/ Export

Spec == Init /\ [][Next]_vars

\* The positions process and the conversion pass through.
Positions ==
    {"new", "init", "loop", "read", "activate", "create", "resolve", "snapshot",
     "capture", "commit", "finish", "done", "exported", "failed", "panic"}

\* Nothing is left to run: the constructor or process returned an error, the
\* lookup of a snapshot panicked, or the returned graph has been converted.
Halted == pc \in {"exported", "failed", "panic"} \/ (pc = "done" /\ ~Get(result).ok)

\* The position changes.
Advance == ~Halted /\ pc' \in Positions \ {pc}

\* The runs on a finite stream.  The program is sequential: until it halts it
\* takes its next step, and the loops over the statements and the nodes of a
\* cycle are finite; the for loop of read_cycle_changes is left because the
\* stream holds finitely many commands.  So the position keeps changing until
\* the program halts.
FairSpec == Spec /\ WF_pc(Advance)

\* ------------------------------------------------------- reading the heap
NodeIds == 1..Len(nodes)
\* The static vertex of a dynamic node (DynPDGNode.inner).
Inner(n) == Vertex(nodes[n].inner)
\* The node a dependency points to: its timestamp and its static vertex.
DepTimestamp(dep) ==
    IF dep.kind = "Declaration" THEN decl_nodes[dep.node].timestamp ELSE nodes[dep.node].timestamp
DepInner(dep) ==
    IF dep.kind = "Declaration" THEN Vertex(decl_nodes[dep.node].inner) ELSE Inner(dep.node)
\* The dependencies of node n under mode m, as a set.
DepSet(m, n) == {dependencies[m][n][k] : k \in DOMAIN dependencies[m][n]}
\* The nodes made in the running cycle (new_nodes), and those among them whose
\* vertex writes a register at the end of the cycle (line 187).
NewIds == {new_nodes[k][2] : k \in DOMAIN new_nodes}
IsRegVertex(v) == v.clocked /\ v.kind # "DataDefinition" /\ IsSome(v.assigns_to)
InCycle == pc \in {"create", "resolve", "snapshot", "capture", "commit"}

\* ------------------------------------------------------------------ C1
\* C1: every dependency (p, k) of a dynamic node d has p.timestamp <= d.timestamp,
\* and p.timestamp < d.timestamp when d's vertex is clocked and k is Data.
C1_TimeOrder ==
    \A m \in Modes : \A d \in NodeIds : \A dep \in DepSet(m, d) :
        /\ DepTimestamp(dep) <= nodes[d].timestamp
        /\ (Inner(d).clocked /\ dep.kind = "Data") => DepTimestamp(dep) < nodes[d].timestamp

\* ------------------------------------------------------------------ C2
\* The nodes reachable from the nodes of `frontier` along the dependencies of mode
\* m (Declaration singletons have no dependencies and close no cycle).
Succ(m, n) == {dep.node : dep \in {x \in DepSet(m, n) : x.kind # "Declaration"}}
RECURSIVE ReachFrom(_, _, _)
ReachFrom(m, seen, frontier) ==
    IF frontier = {} THEN seen
    ELSE LET next == UNION {Succ(m, n) : n \in frontier}
         IN  ReachFrom(m, seen \cup next, next \ seen)
\* The nodes reachable from n in one step or more.
ReachPlus(m, n) == ReachFrom(m, {}, {n})
\* The graph dpdg_make_exportable walks: the result of process and what it reaches.
Exported(m) == {Get(result).node} \cup ReachPlus(m, Get(result).node)
Returned == pc = "done" /\ Get(result).ok

\* C2: the dynamic graph reachable from the node process returns has no directed
\* cycle, self-loops included.
C2_Acyclic ==
    Returned => \A m \in Modes : \A n \in Exported(m) : n \notin ReachPlus(m, n)

\* ------------------------------------------------------------------ C3
\* The entries of new_nodes whose vertex is a clocked one of a kind other than
\* DataDefinition that assigns sym and whose condition holds (probe_values does not
\* change while a cycle is processed).
RegWriters(sym) ==
    {k \in DOMAIN new_nodes :
        LET v == Vertex(new_nodes[k][1])
        IN  /\ IsRegVertex(v) /\ Get(v.assigns_to) = sym
            /\ ConditionsSatisfied(v.condition, probe_values)}
RegSymbols == {sym \in {"q", "r", "mem", "z"} : RegWriters(sym) # {}}
LastRegWriter(sym) ==
    LET writers == RegWriters(sym)
    IN  new_nodes[CHOOSE k \in writers : \A j \in writers : j <= k][2]
\* The nodes of the running cycle made for such a vertex, whatever its condition.
NewRegIds == {n \in NewIds : IsRegVertex(Inner(n))}
SnapshotNodes ==
    UNION {{dependency_state_snapshots[t][1][x] : x \in DOMAIN dependency_state_snapshots[t][1]}
             : t \in DOMAIN dependency_state_snapshots}
StateNodes == {dependency_state[x] : x \in DOMAIN dependency_state}

\* While cycle tau is processed, up to its register commit, a node made at tau for
\* a clocked vertex other than a DataDefinition is no entry of S or of a snapshot,
\* and no node made at tau depends on it.
C3_NeverAtTau ==
    InCycle =>
        LET regs == NewRegIds
        IN  /\ \A n \in regs : n \notin StateNodes /\ n \notin SnapshotNodes
            /\ \A m \in Modes : \A d \in NewIds : \A n \in regs : n \notin Succ(m, d)

\* C3 as stated: such a node is never S[sym] at tau, and it is S[sym] for the
\* consumers resolved at tau+1 (here for the vertices without a condition or delay).
C3_Original ==
    /\ C3_NeverAtTau
    /\ pc = "resolve" =>
          \A n \in NodeIds :
              (/\ IsRegVertex(Inner(n)) /\ Inner(n).condition = None
               /\ Inner(n).assign_delay = 0 /\ nodes[n].timestamp = Tau - 1)
              => dependency_state[Get(Inner(n).assigns_to)] = n

\* C3 amended: never at tau; the deferred map holds, per symbol, the node of the
\* last such vertex made at tau whose condition held; from the register commit of
\* tau until the node creation of tau+1 begins S maps the symbol to that node.
C3_RegisterCommit ==
    /\ C3_NeverAtTau
    /\ pc \in {"resolve", "snapshot", "capture", "commit", "loop"} =>
          /\ DOMAIN new_reg_providers = RegSymbols
          /\ \A sym \in RegSymbols : new_reg_providers[sym] = LastRegWriter(sym)
    /\ pc \in {"loop", "read", "activate"} =>
          \A sym \in DOMAIN new_reg_providers :
              /\ sym \in DOMAIN dependency_state
              /\ dependency_state[sym] = new_reg_providers[sym]

\* A consumer of cycle tau+1 is linked to the register node made at tau.
C3_Witness ==
    /\ pc = "snapshot" /\ Tau >= 1
    /\ \E d \in NewIds : \E dep \in DepSet("Normal", d) :
          /\ dep.kind = "Data" /\ IsRegVertex(Inner(dep.node))
          /\ nodes[dep.node].timestamp = Tau - 1
          /\ dependency_state[Get(Inner(dep.node).assigns_to)] = dep.node

\* ------------------------------------------------------------------ C4
\* The node made last, while the cycle's nodes are being made and resolved.
LastNew == new_nodes[Len(new_nodes)]
IsRegDeclaration(v) == v.clocked /\ v.kind = "DataDefinition" /\ IsSome(v.assigns_to)

\* C4 as stated: with reset = 1, once the node of an activated clocked
\* DataDefinition vertex that assigns sym is made, S[sym] is that node and its
\* timestamp is tau - 1.
C4_Original ==
    (/\ pc \in {"create", "resolve"} /\ new_nodes # <<>> /\ reset_val = "V1"
     /\ IsRegDeclaration(Vertex(LastNew[1])))
    => /\ Get(Vertex(LastNew[1]).assigns_to) \in DOMAIN dependency_state
       /\ dependency_state[Get(Vertex(LastNew[1]).assigns_to)] = LastNew[2]
       /\ nodes[LastNew[2]].timestamp = Tau - 1

\* C4 amended: the same for the vertices whose condition holds; the node of a
\* vertex whose condition does not hold keeps timestamp tau and is no entry of S.
C4_Reset ==
    (/\ pc \in {"create", "resolve"} /\ new_nodes # <<>> /\ reset_val = "V1"
     /\ IsRegDeclaration(Vertex(LastNew[1])))
    => IF ConditionsSatisfied(Vertex(LastNew[1]).condition, probe_values)
       THEN /\ Get(Vertex(LastNew[1]).assigns_to) \in DOMAIN dependency_state
            /\ dependency_state[Get(Vertex(LastNew[1]).assigns_to)] = LastNew[2]
            /\ nodes[LastNew[2]].timestamp = Tau - 1
       ELSE /\ LastNew[2] \notin StateNodes
            /\ nodes[LastNew[2]].timestamp = Tau

\* A register's declaration takes the reset path in a cycle after the first.
C4_Witness ==
    /\ pc = "create" /\ new_nodes # <<>> /\ reset_val = "V1" /\ Tau >= 1
    /\ IsRegDeclaration(Vertex(LastNew[1]))
    /\ dependency_state[Get(Vertex(LastNew[1]).assigns_to)] = LastNew[2]
    /\ nodes[LastNew[2]].timestamp = Tau - 1

\* ------------------------------------------------------------------ C5
\* The nodes of the running cycle made for a vertex with assign_delay > 0.
NewDelayedIds == {n \in NewIds : Inner(n).assign_delay > 0}
\* Such a node is made at a cycle assign_delay after one that queued delayed statements.
FiresAfterDelay ==
    InCycle => \A n \in NewDelayedIds :
                  (Tau - Inner(n).assign_delay) \in DOMAIN dependency_state_snapshots

\* C5 as stated: the node of a vertex with assign_delay > 0 is made assign_delay
\* cycles after the activation, and no consumer resolved in that cycle has a Data
\* dependency on it.
C5_Original ==
    /\ FiresAfterDelay
    /\ InCycle => \A m \in Modes : \A d \in NewIds : \A dep \in DepSet(m, d) :
                      dep.kind = "Data" => dep.node \notin NewDelayedIds

\* C5 amended: the same for the clocked vertices of a kind other than
\* DataDefinition, whose write is committed with the registers of the firing cycle.
C5_Delay ==
    /\ FiresAfterDelay
    /\ InCycle =>
          /\ NewDelayedIds \cap NewRegIds \cap StateNodes = {}
          /\ \A m \in Modes : \A d \in NewIds : \A dep \in DepSet(m, d) :
                dep.kind = "Data" => dep.node \notin (NewDelayedIds \cap NewRegIds)
    /\ pc = "loop" =>
          \A sym \in RegSymbols :
              LastRegWriter(sym) \in NewDelayedIds => dependency_state[sym] = LastRegWriter(sym)

\* A delayed write is committed in its firing cycle, whose reader of the symbol
\* was linked to the provider before it.
C5_Witness ==
    /\ pc = "loop"
    /\ \E sym \in RegSymbols :
          /\ LastRegWriter(sym) \in NewDelayedIds
          /\ dependency_state[sym] = LastRegWriter(sym)
          /\ \E d \in NewIds : \E dep \in DepSet("Normal", d) :
                /\ dep.kind = "Data" /\ DepInner(dep).assigns_to = Some(sym)
                /\ dep.node # LastRegWriter(sym)

\* ------------------------------------------------------------------ C6
\* C6: a dynamic node has at most one dependency of a kind whose provider's vertex
\* assigns a given symbol.
C6_UniqueSymbol ==
    \A m \in Modes : \A n \in NodeIds :
        \A i, j \in DOMAIN dependencies[m][n] :
            LET a == dependencies[m][n][i]
                b == dependencies[m][n][j]
            IN  (i < j /\ a.kind = b.kind /\ IsSome(DepInner(a).assigns_to))
                => DepInner(a).assigns_to # DepInner(b).assigns_to

\* The static edges of vertex i whose condition holds, as (kind, symbol) pairs, hold
\* a pair twice.
TwoEdgesOneSymbol(i) ==
    \E a, b \in DOMAIN LinkedDeps(i) :
        /\ a < b /\ LinkedDeps(i)[a].kind = LinkedDeps(i)[b].kind
        /\ IsSome(Vertex(LinkedDeps(i)[a].to).assigns_to)
        /\ Vertex(LinkedDeps(i)[a].to).assigns_to = Vertex(LinkedDeps(i)[b].to).assigns_to
        /\ ConditionsSatisfied(LinkedDeps(i)[a].condition, probe_values)
        /\ ConditionsSatisfied(LinkedDeps(i)[b].condition, probe_values)

\* A consumer with two Data edges to providers of one symbol was resolved, and is
\* linked to the symbol's provider.
C6_Witness ==
    /\ pc = "snapshot"
    /\ \E d \in NewIds :
          /\ TwoEdgesOneSymbol(nodes[d].inner)
          /\ \E dep \in DepSet("Normal", d) :
                \E k \in DOMAIN LinkedDeps(nodes[d].inner) :
                    /\ LinkedDeps(nodes[d].inner)[k].kind = dep.kind
                    /\ Vertex(LinkedDeps(nodes[d].inner)[k].to).assigns_to = DepInner(dep).assigns_to

\* ------------------------------------------------------------------ C7
\* C7: every dependency of the graph built in DataOnly mode is a dependency of the
\* graph built in Normal mode.
C7_DataOnlySubset ==
    Returned => \A n \in Exported("DataOnly") :
                    /\ n \in Exported("Normal")
                    /\ DepSet("DataOnly", n) \subseteq DepSet("Normal", n)

\* ------------------------------------------------------------------ C9
\* The nodes made for the statement the criterion names.
Named == {n \in NodeIds : Inner(n).name = criterion.c}
Newest(ns) == CHOOSE n \in ns : \A k \in ns : k <= n

\* C9: for Statement(name) process returns the node made last among the nodes of
\* the vertices called name (the arena is in the order of creation), and fails
\* when there is none.
C9_MostRecent ==
    (pc = "done" /\ criterion.type = "Statement") =>
        IF Named = {}
        THEN ~Get(result).ok
        ELSE Get(result).ok /\ Get(result).node = Newest(Named)

\* The statement was activated in several cycles, and the last node is returned.
C9_Witness ==
    /\ pc = "done" /\ criterion.type = "Statement"
    /\ Cardinality(Named) >= 2
    /\ Get(result).ok /\ Get(result).node = Newest(Named)
    /\ Newest(Named) # Len(nodes)

\* ------------------------------------------------------------------ C10
\* C10: for Signal(sym) process returns the node the live table maps sym to once
\* the last cycle's register commit is done (the register node of that cycle, if
\* one was committed for sym), and fails when the table has no entry for sym.
C10_Signal ==
    (pc = "done" /\ criterion.type = "Signal") =>
        IF criterion.c \in DOMAIN dependency_state
        THEN /\ Get(result).ok
             /\ Get(result).node = dependency_state[criterion.c]
             /\ criterion.c \in DOMAIN new_reg_providers
                    => Get(result).node = new_reg_providers[criterion.c]
        ELSE ~Get(result).ok

\* The register node committed in the last cycle is returned.
C10_Witness ==
    /\ pc = "done" /\ criterion.type = "Signal"
    /\ criterion.c \in DOMAIN new_reg_providers
    /\ Get(result).ok /\ Get(result).node = new_reg_providers[criterion.c]
    /\ criterion_node # Some(Get(result).node)

\* ------------------------------------------------------------------ C11
\* The symbol of the criterion is assigned by no vertex of the PDG.
Unassigned == \A i \in DOMAIN pdg.vertices : pdg.vertices[i].assigns_to # Some(criterion.c)
\* The cycle loop has ended: EOF was reported or the budget is used up.
LoopEnded ==
    eof_reached \/ (IsSome(max_timesteps) /\ current_time * 2 > Get(max_timesteps))

\* C11: process returns only once the cycle loop has ended, and it returns the
\* StatementLookupError exactly when no node made matched the Statement criterion,
\* or S has no entry for the symbol of the Signal criterion; Signal(z) with z
\* assigned by no vertex fails.
C11_CriterionNotFound ==
    /\ (IsSome(result) /\ pc # "failed") => (pc \in {"done", "exported"} /\ LoopEnded)
    /\ pc = "failed" => Get(result).err # "StatementLookupError"
    /\ pc = "done" =>
          /\ ~Get(result).ok <=> IF criterion.type = "Statement"
                                 THEN Named = {}
                                 ELSE criterion.c \notin DOMAIN dependency_state
          /\ ~Get(result).ok => Get(result).err = "StatementLookupError"
          /\ (criterion.type = "Signal" /\ Unassigned) => ~Get(result).ok

\* Signal(z) failed after cycles that made nodes, none of which assigns z.
C11_Witness ==
    /\ pc = "done" /\ criterion.type = "Signal" /\ Unassigned
    /\ eof_reached /\ nodes # <<>> /\ current_time >= 2
    /\ ~Get(result).ok

\* ------------------------------------------------------------------ C12
\* What the criterion selects among the nodes made, if anything.
Selected ==
    IF criterion.type = "Statement"
    THEN IF Named = {} THEN None ELSE Some(Newest(Named))
    ELSE IF criterion.c \in DOMAIN dependency_state
         THEN Some(dependency_state[criterion.c]) ELSE None
\* The condition under which another cycle may start.
MayContinue ==
    ~eof_reached /\ (max_timesteps = None \/ 2 * current_time <= Get(max_timesteps))

\* C12: at the head of the loop process starts another cycle exactly when EOF
\* has not been reported and 2 * current_time <= max_timesteps (always, without a
\* budget), and leaves the loop otherwise; when it has left on the budget, it
\* returns what the criterion selects, as it does on EOF.
C12_Budget ==
    /\ [][pc = "loop" => /\ (pc' = "read") <=> MayContinue
                         /\ (pc' = "finish") <=> ~MayContinue]_vars
    /\ [](pc = "done" =>
            /\ Get(result).ok <=> IsSome(Selected)
            /\ Get(result).ok => Get(result).node = Get(Selected))

\* process has left the loop on the budget with commands left in the stream, and
\* returned a node.
C12_Witness ==
    /\ pc = "done" /\ ~eof_reached
    /\ IsSome(max_timesteps) /\ 2 * current_time > Get(max_timesteps)
    /\ Get(result).ok /\ Get(result).node = Get(Selected)

\* ------------------------------------------------------------------ C13
\* C13: a call of read_cycle_changes leaves current_time alone until it returns,
\* and returns with current_time advanced by one; it returns eof = false only
\* when a 0 -> 1 transition of the clock was seen in the call, at the first
\* Timestamp after it (no Timestamp after the edge is consumed without
\* returning: nothing is flushed any more); nothing else changes current_time.
C13_ReadAdvances ==
    /\ [][(pc = "read" /\ pc' = "activate") =>
             /\ current_time' = current_time + 1
             /\ ~eof_reached' => rising_edge_found]_vars
    /\ [][(pc = "read" /\ pc' = "read") =>
             /\ current_time' = current_time
             /\ (rising_edge_found' /\ ~rising_edge_found)
                    => (clock_val = "V0" /\ clock_val' = "V1")
             /\ rising_edge_found => (rising_edge_found' /\ changes' = changes
                                      /\ probe_values' = probe_values)]_vars
    /\ [][current_time' # current_time => (pc = "read" /\ pc' = "activate")]_vars

\* A call returned eof = false at the Timestamp after a rising edge, and the next
\* call met the end of the stream and advanced the time once more.
C13_Witness ==
    /\ pc = "activate" /\ eof_reached /\ current_time = 2
    /\ clock_val = "V1"

\* ------------------------------------------------------------------ C14
\* Some predicate's name is not declared by the header.
PredicateMissing == \E k \in DOMAIN pdg.predicates : pdg.predicates[k].name \notin header_vars
ClockMissing == "clock" \notin header_vars \/ "reset" \notin header_vars

\* C14: without the clock or the reset in the header construction fails with
\* ClockNotFoundError; with them and without a predicate's name process fails with
\* VariableNotFoundError; neither gets as far as the cycle loop, and in both cases
\* no cycle was read, no node was made and dependency_state is as constructed.
\* With every name declared neither error is raised.
C14_HeaderErrors ==
    /\ ClockMissing =>
          /\ pc \in {"new", "failed"}
          /\ pc = "failed" => Get(result) = [ok |-> FALSE, err |-> "ClockNotFoundError"]
    /\ (~ClockMissing /\ PredicateMissing) =>
          /\ pc \in {"new", "init", "failed"}
          /\ pc = "failed" => Get(result) = [ok |-> FALSE, err |-> "VariableNotFoundError"]
    /\ (~ClockMissing /\ ~PredicateMissing) => pc # "failed"
    /\ pc \in {"new", "init", "failed"} =>
          /\ nodes = <<>> /\ decl_nodes = <<>>
          /\ dependency_state = EmptyMap /\ dependency_state_snapshots = EmptyMap
          /\ current_time = 0 /\ ~eof_reached

\* process has failed on a predicate the header does not declare.
C14_Witness ==
    /\ pc = "failed" /\ ~ClockMissing /\ PredicateMissing
    /\ Get(result).err = "VariableNotFoundError"

\* ------------------------------------------------------------------ C15
\* The nodes reachable from the returned node under mode m, Declaration nodes
\* included, as references.
RefSucc(m, r) == {Ref(RefDeps(m, r)[k]) : k \in DOMAIN RefDeps(m, r)}
RECURSIVE RefReach(_, _, _)
RefReach(m, seen, frontier) ==
    IF frontier = {} THEN seen
    ELSE LET next == UNION {RefSucc(m, r) : r \in frontier}
         IN  RefReach(m, seen \cup next, next \ seen)
Root == [decl |-> FALSE, id |-> Get(result).node]
Reachable(m) == RefReach(m, {Root}, {Root})
Graph(m) == Get(exported)[m]
NoDuplicate(q) == \A i, j \in DOMAIN q : q[i] = q[j] => i = j

\* C15: each node reachable from the root has exactly one index, the indices are
\* 0 .. n-1 and those of the edges' ends, two nodes are one vertex only if they
\* are one object, and no (from, to, kind, clocked) edge is emitted twice.
C15_IdentityIndex ==
    pc = "exported" =>
        \A m \in Modes :
            /\ NoDuplicate(Graph(m).scanned_nodes)
            /\ {Graph(m).scanned_nodes[i] : i \in DOMAIN Graph(m).scanned_nodes} = Reachable(m)
            /\ Len(Graph(m).vertices) = Cardinality(Reachable(m))
            /\ NoDuplicate(Graph(m).edges)
            /\ \A k \in DOMAIN Graph(m).edges :
                  /\ Graph(m).edges[k].from \in 0 .. Len(Graph(m).vertices) - 1
                  /\ Graph(m).edges[k].to \in 0 .. Len(Graph(m).vertices) - 1

\* The exported graph of mode Full holds two vertices of equal contents (two
\* Declaration nodes of one vertex and cycle), and a node with two dependents.
C15_Witness ==
    /\ pc = "exported"
    /\ \E i, j \in DOMAIN Graph("Full").vertices :
          i # j /\ Graph("Full").vertices[i] = Graph("Full").vertices[j]
    /\ \E a, b \in DOMAIN Graph("Full").edges :
          /\ Graph("Full").edges[a].to = Graph("Full").edges[b].to
          /\ Graph("Full").edges[a].from # Graph("Full").edges[b].from

\* ------------------------------------------------------------------ C16
\* Edge e of the exported graph of mode m is a dependency of the node at `from`
\* on the node at `to`.
IsDependency(m, e) ==
    \E k \in DOMAIN RefDeps(m, Graph(m).scanned_nodes[e.from + 1]) :
        LET dep == RefDeps(m, Graph(m).scanned_nodes[e.from + 1])[k]
        IN  Ref(dep) = Graph(m).scanned_nodes[e.to + 1] /\ dep.kind = e.kind

\* C16: in every exported edge `from` is the dependent node, `to` the provider it
\* depends on, and clocked is the clocked bit of the provider's vertex.
C16_ClockedOfProvider ==
    pc = "exported" =>
        \A m \in Modes : \A k \in DOMAIN Graph(m).edges :
            LET e == Graph(m).edges[k]
            IN  /\ IsDependency(m, e)
                /\ e.clocked = RefInner(Graph(m).scanned_nodes[e.to + 1]).clocked

\* C16 amended: `from` is the dependent node, `to` the provider it depends on,
\* and clocked is the clocked bit of the dependent's vertex.
C16_ClockedOfDependent ==
    pc = "exported" =>
        \A m \in Modes : \A k \in DOMAIN Graph(m).edges :
            LET e == Graph(m).edges[k]
            IN  /\ IsDependency(m, e)
                /\ e.clocked = RefInner(Graph(m).scanned_nodes[e.from + 1]).clocked

\* An exported edge from a clocked dependent to a provider that is not clocked.
C16_Witness ==
    /\ pc = "exported"
    /\ \E k \in DOMAIN Graph("Normal").edges :
          LET e == Graph("Normal").edges[k]
          IN  /\ e.clocked /\ e.kind = "Data"
              /\ RefInner(Graph("Normal").scanned_nodes[e.from + 1]).clocked
              /\ ~RefInner(Graph("Normal").scanned_nodes[e.to + 1]).clocked

\* ------------------------------------------------------------------ C17
Kinds(m, n) == {dep.kind : dep \in DepSet(m, n)}
NotDeclaration(dep) == dep.kind # "Declaration"

\* C17: a node's dependencies are Data ones under DataOnly; Data, Index and
\* Conditional ones under Normal; and under Full those of Normal, in their order,
\* with Declaration ones among them.
C17_KindsByMode ==
    \A n \in NodeIds :
        /\ Kinds("DataOnly", n) \subseteq {"Data"}
        /\ Kinds("Normal", n) \subseteq {"Data", "Index", "Conditional"}
        /\ Kinds("Full", n) \subseteq {"Data", "Index", "Conditional", "Declaration"}
        /\ SelectSeq(dependencies["Full"][n], NotDeclaration) = dependencies["Normal"][n]

\* A node with a Data, a Conditional and a Declaration dependency under Full, the
\* first two under Normal, and the Data one alone under DataOnly.
C17_Witness ==
    \E n \in NodeIds :
        /\ Kinds("Full", n) = {"Data", "Conditional", "Declaration"}
        /\ Kinds("Normal", n) = {"Data", "Conditional"}
        /\ Kinds("DataOnly", n) = {"Data"}

\* ------------------------------------------------------------------ C18
\* The node made in the running cycle for the vertex called name (scenario
\* "register update ordering": each vertex is activated once a cycle).
NewNodeOf(name) == CHOOSE n \in NewIds : Inner(n).name = name
AfterResolution == pc \in {"snapshot", "capture", "commit"}

\* C18: in the scenario of PdgRegister, at tau = 0 the node of w depends on the
\* node of q_def and that has timestamp -1; at tau >= 1 without reset the node of
\* w has timestamp tau - 1 and depends on the node of q with timestamp tau - 1,
\* and the node of q has timestamp tau and depends on this cycle's node of w.
C18_RegisterScenario ==
    (pdg = PdgRegister /\ AfterResolution) =>
        \A m \in Modes :
            /\ Tau = 0 =>
                  /\ DepSet(m, NewNodeOf("w")) = {[node |-> NewNodeOf("q_def"), kind |-> "Data"]}
                  /\ nodes[NewNodeOf("q_def")].timestamp = -1
            /\ (Tau >= 1 /\ reset_val # "V1") =>
                  /\ nodes[NewNodeOf("w")].timestamp = Tau - 1
                  /\ nodes[NewNodeOf("q")].timestamp = Tau
                  /\ \E p \in NodeIds :
                        /\ DepSet(m, NewNodeOf("w")) = {[node |-> p, kind |-> "Data"]}
                        /\ Inner(p).name = "q" /\ nodes[p].timestamp = Tau - 1
                  /\ DepSet(m, NewNodeOf("q")) = {[node |-> NewNodeOf("w"), kind |-> "Data"]}

\* The scenario has run with reset at tau = 0 and without it at tau = 1.
C18_Witness ==
    /\ pdg = PdgRegister /\ pc = "snapshot" /\ Tau = 1 /\ reset_val = "V0"
    /\ \E p \in NodeIds :
          /\ [node |-> p, kind |-> "Data"] \in DepSet("Normal", NewNodeOf("w"))
          /\ Inner(p).name = "q" /\ nodes[p].timestamp = 0

\* ------------------------------------------------------------------ C19
\* Scenario "guarded condition": x_a writes x under probe_sel = 0 and x_b under
\* probe_sel = 1; y reads x through a Data edge to each.
GuardedWriter == IF probe_values["probe_sel"] = 0 THEN "x_a" ELSE "x_b"
ProbeChooses == "probe_sel" \in DOMAIN probe_values /\ probe_values["probe_sel"] \in {0, 1}
Activated(name) == \E n \in NewIds : Inner(n).name = name
\* The dependencies of node n on providers of x.
DepsOnX(m, n) == {dep \in DepSet(m, n) : DepInner(dep).assigns_to = Some("x")}

NamesMissing(condition, probe_vals) ==
    IsSome(condition) /\ \E k \in DOMAIN Get(condition).probe_name :
                            Get(condition).probe_name[k] \notin DOMAIN probe_vals
\* The probe map the edges of node n were checked against (lines 202-207).
Consulted(n) ==
    IF Inner(n).assign_delay > 0
    THEN dependency_state_snapshots[Tau - Inner(n).assign_delay][2]
    ELSE probe_values
\* Dependency dep of node n can have been made by the static edge e.
MadeBy(dep, e) ==
    /\ e.kind = dep.kind
    /\ IF e.kind \in {"Data", "Index"}
       THEN Vertex(e.to).assigns_to = DepInner(dep).assigns_to
       ELSE Vertex(e.to) = DepInner(dep)
Providers ==
    StateNodes \cup {new_reg_providers[x] : x \in DOMAIN new_reg_providers}
               \cup {controlflow_providers[x] : x \in DOMAIN controlflow_providers}

\* C20: a node whose vertex's condition names a probe without a value is
\* registered nowhere (not in S, not as a register or control-flow provider) and
\* keeps its timestamp; each dependency of a resolved node is made by an edge
\* whose condition names no probe without a value in the map consulted; and
\* process raises no error and does not panic for it.
C20_MissingProbe ==
    /\ InCycle =>
          \A n \in NewIds :
              NamesMissing(Inner(n).condition, probe_values) =>
                  /\ n \notin Providers
                  /\ nodes[n].timestamp = NodeTimestamp(Inner(n).clocked, Tau)
    /\ AfterResolution =>
          \A m \in Modes : \A n \in NewIds : \A dep \in DepSet(m, n) :
              \E k \in DOMAIN LinkedDeps(nodes[n].inner) :
                  /\ MadeBy(dep, LinkedDeps(nodes[n].inner)[k])
                  /\ ~NamesMissing(LinkedDeps(nodes[n].inner)[k].condition, Consulted(n))
    /\ pc # "panic"
    /\ (pc = "done" /\ ~Get(result).ok) => Get(result).err = "StatementLookupError"

\* With no value for probe_sel, x_a was made and registered nowhere, and r, whose
\* Data edge to y is conditional on the probe, has its Conditional dependency only.
C20_Witness ==
    /\ pdg = PdgGuarded /\ pc = "snapshot"
    /\ "probe_sel" \notin DOMAIN probe_values
    /\ Activated("x_a") /\ NewNodeOf("x_a") \notin Providers
    /\ Activated("r") /\ "y" \in DOMAIN dependency_state
    /\ Kinds("Normal", NewNodeOf("r")) = {"Conditional"}

\* ------------------------------------------------------------------ C21
\* The table of the read context of node n (lines 201-207).
ContextState(n) ==
    IF Inner(n).assign_delay > 0
    THEN dependency_state_snapshots[Tau - Inner(n).assign_delay][1]
    ELSE dependency_state
\* The table maps the symbol that the provider of dep assigns to the provider.
LinkedThrough(dep, state) ==
    /\ IsSome(DepInner(dep).assigns_to)
    /\ Get(DepInner(dep).assigns_to) \in DOMAIN state
    /\ state[Get(DepInner(dep).assigns_to)] = dep.node

\* C21: once the nodes of a cycle are resolved, each Data dependency of each is
\* the entry of the live table for the provider's symbol, whatever the consumer's
\* assign_delay, and each Index dependency is the entry of the snapshot of cycle
\* tau - assign_delay when assign_delay > 0 and of the live table when it is 0.
C21_ReadContext ==
    AfterResolution =>
        \A m \in Modes : \A n \in NewIds : \A dep \in DepSet(m, n) :
            /\ dep.kind = "Data" => LinkedThrough(dep, dependency_state)
            /\ dep.kind = "Index" => LinkedThrough(dep, ContextState(n))

\* A delayed consumer has fired: its Index dependency is the provider of its
\* activation cycle, which the live table no longer holds, and its Data dependency
\* is the provider the live table holds, which the snapshot does not.
C21_Witness ==
    /\ pc = "snapshot"
    /\ \E n \in NewDelayedIds : \E a, b \in DepSet("Normal", n) :
          /\ a.kind = "Index" /\ LinkedThrough(a, ContextState(n))
          /\ ~LinkedThrough(a, dependency_state)
          /\ b.kind = "Data" /\ LinkedThrough(b, dependency_state)
          /\ ~LinkedThrough(b, ContextState(n))

\* ------------------------------------------------------------------ C22
\* C22: when the node of a vertex with assign_delay > 0 is resolved in its firing
\* cycle, each Conditional dependency of it is a control-flow node of its activation
\* cycle tau - assign_delay, and none made in the firing cycle.
C22_ActivationControlFlow ==
    AfterResolution =>
        \A m \in Modes : \A n \in NewDelayedIds : \A dep \in DepSet(m, n) :
            dep.kind = "Conditional" =>
                /\ dep.node \notin NewIds
                /\ nodes[dep.node].timestamp =
                      NodeTimestamp(Inner(dep.node).clocked, Tau - Inner(n).assign_delay)

\* ------------------------------------------------------------------ C23
\* The value the buffered probe changes give probe p: that of the last of them.
LastBuffered(p) ==
    probe_change_buffer[CHOOSE k \in DOMAIN probe_change_buffer :
                            /\ probe_change_buffer[k][1] = p
                            /\ \A j \in DOMAIN probe_change_buffer :
                                  probe_change_buffer[j][1] = p => j <= k][2]
Buffered == {probe_change_buffer[k][1] : k \in DOMAIN probe_change_buffer}
IsPrefix(a, b) == Len(a) <= Len(b) /\ SubSeq(b, 1, Len(a)) = a

Forests ==
    { << Fork(0, 0, Some(<<Stmt(1), Fork(2, 0, None, Some(<<Stmt(3)>>)), Stmt(4)>>),
                    Some(<<Fork(5, 0, Some(<<Stmt(6)>>), Some(<<Stmt(7)>>)), Stmt(8)>>)),
         Stmt(9) >>,
      << Stmt(0), Fork(1, 0, None, None), Fork(2, 0, Some(<<Stmt(3)>>), None), Stmt(4) >>,
      << >> }

\* The forward pre-order of a forest: a node's statement, the statements of the
\* one branch its predicate chooses, if that branch is there, then its siblings.
RECURSIVE PreOrder(_, _)
PreOrder(forest, pv) ==
    IF forest = <<>> THEN <<>>
    ELSE LET node == forest[1]
             branch == IF IsSome(node.pred_stmt_ref)
                       THEN IF pv[pred_idx_to_id[Get(node.pred_stmt_ref) + 1]]
                            THEN node.true_branch ELSE node.false_branch
                       ELSE None
         IN  <<node.stmt_ref>>
             \o (IF IsSome(branch) THEN PreOrder(Get(branch), pv) ELSE <<>>)
             \o PreOrder(Tail(forest), pv)

\* C24: when get_activated_statements is called, for every valuation of the
\* predicates the walk of the PDG's CFG, and of each forest of Forests where the
\* PDG has a predicate, returns the forward pre-order; and the statements a cycle
\* processes begin with the statements without delay of the pre-order under the
\* cycle's predicate values.
C24_PreOrder ==
    /\ pc = "activate" =>
          \A pv \in [DOMAIN pred_values -> BOOLEAN] :
              /\ get_activated_statements(pv) = PreOrder(pdg.cfg, pv)
              /\ pred_idx_to_id # <<>> =>
                    \A f \in Forests : WalkCfg(Reverse(f), <<>>, pv) = PreOrder(f, pv)
    /\ pc \in {"create", "resolve"} =>
          IsPrefix(Immediate(PreOrder(pdg.cfg, pred_values)), activated_statements)

\* A cycle of the guarded scenario with the predicate asserted processes the
\* declaration, the when, its true branch and then the sibling after it.
C24_Witness ==
    /\ pdg = PdgGuarded /\ pc = "create" /\ pred_values["prd"]
    /\ activated_statements = <<5, 0, 1, 2, 4, 3>>

\* ------------------------------------------------------------------ C25
\* The changes of the signal id in the change set, by position.
ChangesOf(id) == {k \in DOMAIN changes : changes[k].id = id}
LastChangeOf(id) == changes[CHOOSE k \in ChangesOf(id) : \A j \in ChangesOf(id) : j <= k]
\* Nothing but init_predicates and the head of get_activated_statements touches
\* the predicates, init_predicates sets them to false, and the statements of a
\* cycle come from the walk under the updated predicates.
PredicateFrame ==
    /\ [][pred_values' # pred_values => pc \in {"init", "activate"}]_vars
    /\ [][pc = "init" => \A id \in DOMAIN pred_values' : pred_values'[id] = FALSE]_vars
    /\ [][pc = "activate" =>
             /\ DOMAIN pred_values' = DOMAIN pred_values
             /\ IsPrefix(Immediate(get_activated_statements(pred_values')),
                         activated_statements')]_vars

\* C25 as stated: every predicate starts as false; the walk of a cycle uses, for
\* each change of a predicate's signal in the cycle's change set, the value
\* (value == 1), and the value of the cycle before for a predicate without a
\* change.
C25_Original ==
    /\ PredicateFrame
    /\ [][pc = "activate" =>
             /\ \A k \in DOMAIN changes :
                   changes[k].id \in DOMAIN pred_values =>
                       pred_values'[changes[k].id] = (changes[k].value = "V1")
             /\ \A id \in DOMAIN pred_values :
                   ChangesOf(id) = {} => pred_values'[id] = pred_values[id]]_vars

\* C25 amended: the same, with (value == 1) of the last change of the
\* predicate's signal in the change set.
C25_LastChange ==
    /\ PredicateFrame
    /\ [][pc = "activate" =>
             \A id \in DOMAIN pred_values :
                 pred_values'[id] = IF ChangesOf(id) = {} THEN pred_values[id]
                                    ELSE LastChangeOf(id).value = "V1"]_vars

\* The change set of a cycle carries a change of the predicate to 1 and, after
\* it, one to 0, and the walk of the cycle has used false.
C25_Witness ==
    /\ pc = "create" /\ Len(changes) = 2
    /\ changes[1] = [id |-> "prd", value |-> "V1"]
    /\ changes[2] = [id |-> "prd", value |-> "V0"]
    /\ pred_values["prd"] = FALSE

\* ------------------------------------------------------------------ C26
\* The node n of the running cycle took the reset path (lines 181-184).
TookResetPath(n) ==
    /\ IsRegDeclaration(Inner(n))
    /\ ConditionsSatisfied(Inner(n).condition, probe_values)
    /\ ResetPath(Tau, reset_val)
\* The timestamp node n was made with, before the decrement of the reset path.
CreatedTimestamp(n) == IF TookResetPath(n) THEN nodes[n].timestamp + 1 ELSE nodes[n].timestamp
Max2(a, b) == IF a >= b THEN a ELSE b

\* C26: a node made at cycle tau is made with timestamp tau if its vertex is
\* clocked and with max(tau - 1, 0) otherwise; that of a vertex that is not
\* clocked made at tau = 0 has timestamp 0.
C26_ClampedTimestamp ==
    InCycle =>
        \A n \in NewIds :
            CreatedTimestamp(n) = IF Inner(n).clocked THEN Tau ELSE Max2(Tau - 1, 0)

\* ------------------------------------------------------------------ C27
\* The node made last is that of a vertex that is not clocked and assigns a symbol.
WireJustMade ==
    /\ pc \in {"create", "resolve"} /\ new_nodes # <<>>
    /\ ~Vertex(LastNew[1]).clocked /\ IsSome(Vertex(LastNew[1]).assigns_to)

\* C27 as stated: once the node of a vertex that is not clocked and assigns sym is
\* made, S[sym] is that node.
C27_Original ==
    WireJustMade =>
        /\ Get(Vertex(LastNew[1]).assigns_to) \in DOMAIN dependency_state
        /\ dependency_state[Get(Vertex(LastNew[1]).assigns_to)] = LastNew[2]

\* C27 amended: the same for the vertices whose condition holds; the node of a
\* vertex whose condition does not hold is no entry of S.
C27_WireProvider ==
    WireJustMade =>
        IF ConditionsSatisfied(Vertex(LastNew[1]).condition, probe_values)
        THEN /\ Get(Vertex(LastNew[1]).assigns_to) \in DOMAIN dependency_state
             /\ dependency_state[Get(Vertex(LastNew[1]).assigns_to)] = LastNew[2]
        ELSE LastNew[2] \notin StateNodes

\* In a cycle after the first the node of a guarded wire whose condition holds
\* has replaced the symbol's provider.
C27_Witness ==
    /\ WireJustMade /\ pc = "create" /\ Tau >= 1
    /\ IsSome(Vertex(LastNew[1]).condition)
    /\ ConditionsSatisfied(Vertex(LastNew[1]).condition, probe_values)
    /\ dependency_state[Get(Vertex(LastNew[1]).assigns_to)] = LastNew[2]

\* ------------------------------------------------------------------ C28
\* A cycle that queued delayed statements has ended.
CycleSnapshotted == pc = "loop" /\ delayed_statements_present
RegNodes == {new_reg_providers[x] : x \in DOMAIN new_reg_providers}

\* C28 as stated: the register commit precedes the snapshot, so the snapshot
\* stored in cycle tau holds the register providers committed in cycle tau: at the
\* end of the cycle it is the live table.
C28_Original ==
    CycleSnapshotted =>
        /\ Tau \in DOMAIN dependency_state_snapshots
        /\ dependency_state_snapshots[Tau][1] = dependency_state

\* C28 amended: the end of a cycle runs snapshot, criterion capture, register
\* commit, in that order; the snapshot stored in cycle tau is the live table and
\* the probe values as the resolution of cycle tau saw them, it holds none of the
\* register providers committed in cycle tau, and the live table after the commit
\* is the snapshot's table with those merged in.
C28_SnapshotBeforeCommit ==
    /\ [][/\ pc = "snapshot" => pc' = "capture" /\ dependency_state' = dependency_state
          /\ pc = "capture" => pc' = "commit" /\ dependency_state' = dependency_state
                                /\ dependency_state_snapshots' = dependency_state_snapshots
          /\ pc = "commit" => pc' = "loop"
                               /\ dependency_state_snapshots' = dependency_state_snapshots
                               /\ criterion_node' = criterion_node
          /\ pc = "resolve" => pc' \in {"resolve", "snapshot", "panic"}]_vars
    /\ []((pc \in {"capture", "commit"} /\ delayed_statements_present) =>
             /\ Tau \in DOMAIN dependency_state_snapshots
             /\ dependency_state_snapshots[Tau] = <<dependency_state, probe_values>>)
    /\ [](CycleSnapshotted =>
             /\ Tau \in DOMAIN dependency_state_snapshots
             /\ dependency_state = Merge(dependency_state_snapshots[Tau][1], new_reg_providers)
             /\ dependency_state_snapshots[Tau][2] = probe_values
             /\ \A x \in DOMAIN dependency_state_snapshots[Tau][1] :
                   dependency_state_snapshots[Tau][1][x] \notin RegNodes)

\* A cycle that queued a delayed statement has committed a register provider,
\* which the live table holds and the cycle's snapshot does not.
C28_Witness ==
    /\ CycleSnapshotted
    /\ \E x \in DOMAIN new_reg_providers :
          /\ dependency_state[x] = new_reg_providers[x]
          /\ x \in DOMAIN dependency_state_snapshots[Tau][1]
          /\ dependency_state_snapshots[Tau][1][x] # new_reg_providers[x]

\* ------------------------------------------------------------------ C29
\* The cycles that queued a delayed statement which has not fired yet: an entry
\* (fire_cycle, stmt) of the buffer was queued at fire_cycle - assign_delay.
PendingCycles ==
    {delayed_statement_buffer[k][1] - Vertex(delayed_statement_buffer[k][2]).assign_delay
        : k \in DOMAIN delayed_statement_buffer}
Snapshotted == DOMAIN dependency_state_snapshots

\* C29 as stated: after every cycle the snapshot table holds exactly the cycles
\* that queued a delayed statement which has not fired yet.
C29_Original == pc = "loop" => Snapshotted = PendingCycles

\* C29 amended: the snapshot table holds exactly the cycles that queued a delayed
\* statement, fired or not: a cycle adds its own timestamp to the table exactly
\* when it queued one, no entry is ever removed or changed, and after every cycle
\* the cycles with a statement still queued are among its keys.
C29_SnapshotsKept ==
    /\ [][/\ Snapshotted' = Snapshotted \cup
                              (IF pc = "snapshot" /\ Tau \in PendingCycles THEN {Tau} ELSE {})
          /\ \A t \in Snapshotted :
                dependency_state_snapshots'[t] = dependency_state_snapshots[t]]_vars
    /\ [](pc \in {"snapshot", "capture", "commit", "loop"} =>
             (delayed_statements_present <=> Tau \in PendingCycles))
    /\ [](pc = "loop" => PendingCycles \subseteq Snapshotted)

\* After a cycle the table holds the snapshot of a cycle whose delayed
\* statements have all fired.
C29_Witness ==
    /\ pc = "loop" /\ Snapshotted # {}
    /\ \E t \in Snapshotted : t \notin PendingCycles /\ t < Tau
    /\ \E n \in NodeIds : Inner(n).assign_delay > 0

\* ------------------------------------------------------------------ C30
\* The node made last is that of a clocked vertex that assigns a symbol and whose
\* condition holds.
RegisterJustMade ==
    /\ pc \in {"create", "resolve"} /\ new_nodes # <<>>
    /\ Vertex(LastNew[1]).clocked /\ IsSome(Vertex(LastNew[1]).assigns_to)
    /\ ConditionsSatisfied(Vertex(LastNew[1]).condition, probe_values)
\* The entries of new_nodes of such vertices that do not take the reset path.
DeferredEntries ==
    {k \in DOMAIN new_nodes :
        LET v == Vertex(new_nodes[k][1])
        IN  /\ v.clocked /\ IsSome(v.assigns_to)
            /\ ConditionsSatisfied(v.condition, probe_values)
            /\ ~(v.kind = "DataDefinition" /\ ResetPath(Tau, reset_val))}
InTable(tbl, sym, n) == sym \in DOMAIN tbl /\ tbl[sym] = n

\* C30 as stated: once its node is made, such a vertex has either taken the reset
\* path (a DataDefinition, at tau = 0 or under reset) and its node is S[sym], or
\* its node is RegNext[sym]; and each node of the second sort is S[sym] once the
\* cycle has ended.
C30_Original ==
    /\ RegisterJustMade =>
          LET v == Vertex(LastNew[1])
          IN  IF v.kind = "DataDefinition" /\ ResetPath(Tau, reset_val)
              THEN InTable(dependency_state, Get(v.assigns_to), LastNew[2])
              ELSE InTable(new_reg_providers, Get(v.assigns_to), LastNew[2])
    /\ (pc = "loop" /\ current_time >= 1) =>
          \A k \in DeferredEntries :
              InTable(dependency_state, Get(Vertex(new_nodes[k][1]).assigns_to), new_nodes[k][2])

\* C30 amended: once its node is made, the node of a DataDefinition is S[sym] if
\* it took the reset path and is in neither table otherwise, and the node of a
\* vertex of another kind is RegNext[sym] and not in S; once the cycle has ended,
\* S[sym] is, for each symbol with such a vertex of another kind, the node of the
\* last of them made in the cycle.
C30_RegisterPaths ==
    /\ RegisterJustMade =>
          LET v == Vertex(LastNew[1])
          IN  IF v.kind = "DataDefinition"
              THEN /\ LastNew[2] \notin RegNodes
                   /\ IF ResetPath(Tau, reset_val)
                      THEN InTable(dependency_state, Get(v.assigns_to), LastNew[2])
                      ELSE LastNew[2] \notin StateNodes
              ELSE /\ InTable(new_reg_providers, Get(v.assigns_to), LastNew[2])
                   /\ LastNew[2] \notin StateNodes
    /\ (pc = "loop" /\ current_time >= 1) =>
          /\ DOMAIN new_reg_providers = RegSymbols
          /\ \A sym \in RegSymbols : InTable(dependency_state, sym, LastRegWriter(sym))

\* A cycle after the first without reset has ended: the node of the register's
\* declaration, whose condition held, is in no table, and the node of a
\* connection to the register is the register's provider.
C30_Witness ==
    /\ pc = "loop" /\ Tau >= 1 /\ reset_val # "V1"
    /\ \E j, k \in DeferredEntries :
          /\ Vertex(new_nodes[j][1]).kind = "DataDefinition"
          /\ IsSome(Vertex(new_nodes[j][1]).condition)
          /\ new_nodes[j][2] \notin StateNodes
          /\ Vertex(new_nodes[k][1]).kind # "DataDefinition"
          /\ Vertex(new_nodes[j][1]).assigns_to = Vertex(new_nodes[k][1]).assigns_to
          /\ InTable(dependency_state, Get(Vertex(new_nodes[k][1]).assigns_to), new_nodes[k][2])

\* ------------------------------------------------------------------ C31
IsDelayedStmt(st) == Vertex(st).assign_delay > 0
\* The statements of the buffer's entries whose fire cycle is t, in order.
FiringAt(t) ==
    LET due == SelectSeq(delayed_statement_buffer, LAMBDA d : d[1] = t)
    IN  [k \in DOMAIN due |-> due[k][2]]
\* The statements of the entries of new_nodes, in order.
MadeFor == [k \in DOMAIN new_nodes |-> new_nodes[k][1]]

\* C31: when a cycle tau sorts its statements, the statements with a delay of the
\* CFG walk are not among those it makes nodes for: each is queued once, as
\* (tau + delay, stmt), after the entries kept; the entries whose fire cycle is
\* tau leave the buffer and their statements are, once each and in the buffer's
\* order, the statements with a delay the cycle makes nodes for, all of them
\* after the statements without delay; nothing else enters the buffer.  The
\* cycle makes exactly one node for each statement of its list.
C31_DelayedFiring ==
    /\ [][pc = "activate" =>
             LET walk == get_activated_statements(pred_values')
                 queued == SelectSeq(walk, IsDelayedStmt)
                 kept == SelectSeq(delayed_statement_buffer, LAMBDA d : d[1] # Tau)
             IN  /\ SelectSeq(activated_statements', IsDelayedStmt) = FiringAt(Tau)
                 /\ \A i, j \in DOMAIN activated_statements' :
                       (i < j /\ IsDelayedStmt(activated_statements'[i]))
                           => IsDelayedStmt(activated_statements'[j])
                 /\ Len(delayed_statement_buffer') = Len(kept) + Len(queued)
                 /\ SubSeq(delayed_statement_buffer', 1, Len(kept)) = kept
                 /\ \A k \in DOMAIN queued :
                       delayed_statement_buffer'[Len(kept) + k]
                           = <<Tau + Vertex(queued[k]).assign_delay, queued[k]>>]_vars
    /\ [][delayed_statement_buffer' # delayed_statement_buffer => pc = "activate"]_vars
    /\ [](pc \in {"resolve", "snapshot", "capture", "commit"} =>
             /\ MadeFor = activated_statements
             /\ \A i, j \in DOMAIN new_nodes : new_nodes[i][2] = new_nodes[j][2] => i = j)

\* A delayed statement queued in cycle 0 has fired in cycle 1, where its node was
\* made after those of the statements without delay; the predicate that
\* activated it is false in cycle 1, and the buffer holds nothing but the entry
\* of the statement that cycle 0 queued for cycle 2.
C31_Witness ==
    /\ pc = "snapshot" /\ Tau = 1
    /\ Len(delayed_statement_buffer) = 1 /\ delayed_statement_buffer[1][1] = 2
    /\ ~delayed_statements_present
    /\ \E k \in DOMAIN new_nodes :
          /\ k > 1 /\ IsDelayedStmt(new_nodes[k][1])
          /\ ~IsDelayedStmt(new_nodes[k - 1][1])
    /\ Cardinality(NewDelayedIds) = 2

\* ------------------------------------------------------------------ C32
\* The frame of the change set and its buffer: a call returns without touching
\* either; once the rising edge was seen the change set is left alone and the
\* buffer loses nothing; the change set grows only by the whole buffer, at a step
\* that stays in the call before the rising edge was seen; the buffer is touched
\* by read_cycle_changes only.
ChangeSetFrame ==
    /\ [][(pc = "read" /\ pc' = "activate") =>
             changes' = changes /\ changes_buffer' = changes_buffer]_vars
    /\ [][(pc = "read" /\ rising_edge_found) =>
             changes' = changes /\ IsPrefix(changes_buffer, changes_buffer')]_vars
    /\ [][changes' # changes =>
             \/ pc = "loop" /\ changes' = <<>>
             \/ /\ pc = "read" /\ pc' = "read" /\ ~rising_edge_found
                /\ changes' = changes \o changes_buffer /\ changes_buffer' = <<>>]_vars
    /\ [][changes_buffer' # changes_buffer => (pc = "read" /\ pc' = "read")]_vars
\* A predicate without a change in the cycle's change set keeps its value,
\* whatever the buffer holds.
BufferUnseen ==
    [][pc = "activate" =>
          \A id \in DOMAIN pred_values :
              (ChangesOf(id) = {} /\ \E k \in DOMAIN changes_buffer : changes_buffer[k].id = id)
                  => pred_values'[id] = pred_values[id]]_vars

KeyedBySymbol(tbl) == \A sym \in DOMAIN tbl : Inner(tbl[sym]).assigns_to = Some(sym)
\* The vertices the static edges of kind k of vertex i lead to.
ProvidersOf(i, k) ==
    {LinkedDeps(i)[j].to : j \in {x \in DOMAIN LinkedDeps(i) : LinkedDeps(i)[x].kind = k}}

\* C33: each entry of S, of each snapshot and of RegNext is a node whose vertex
\* assigns the entry's symbol; and each Data or Index dependency of a node of the
\* running cycle points to a node whose vertex assigns the symbol that the
\* provider of a static edge of that kind of the node's vertex assigns.
C33_KeyedBySymbol ==
    /\ KeyedBySymbol(dependency_state)
    /\ KeyedBySymbol(new_reg_providers)
    /\ \A t \in DOMAIN dependency_state_snapshots :
          KeyedBySymbol(dependency_state_snapshots[t][1])
    /\ pc \in {"resolve", "snapshot"} =>
          \A m \in Modes : \A n \in NewIds : \A dep \in DepSet(m, n) :
              dep.kind \in {"Data", "Index"} =>
                  /\ IsSome(DepInner(dep).assigns_to)
                  /\ \E p \in ProvidersOf(nodes[n].inner, dep.kind) :
                        Vertex(p).assigns_to = DepInner(dep).assigns_to

\* A Data dependency points to a node of a vertex that no static edge of the
\* consumer leads to: the wire reads the register and is linked to the node of
\* the register's declaration.
C33_Witness ==
    /\ pc = "snapshot"
    /\ \E n \in NewIds : \E dep \in DepSet("Normal", n) :
          /\ dep.kind = "Data"
          /\ nodes[dep.node].inner \notin ProvidersOf(nodes[n].inner, "Data")
          /\ dependency_state[Get(DepInner(dep).assigns_to)] = dep.node

\* ------------------------------------------------------------------ C34
\* The steps of a cycle at which resolution has started.
Resolving == pc \in {"resolve", "snapshot", "capture", "commit"}

C35_NodeFrame ==
    [][/\ Len(nodes') >= Len(nodes)
       /\ Len(decl_nodes') >= Len(decl_nodes)
       /\ \A n \in NodeIds : nodes'[n] = nodes[n]
       /\ \A k \in DOMAIN decl_nodes : decl_nodes'[k] = decl_nodes[k]
       /\ \A n \in NodeIds : (pc # "resolve" \/ n \notin NewIds) =>
             \A m \in Modes : dependencies'[m][n] = dependencies[m][n]]_vars

\* A later cycle has been resolved: a node of an earlier cycle holding
\* dependencies exists, next to the node made for the same vertex in the running
\* cycle, and some table no longer holds the earlier node.
C35_Witness ==
    /\ pc = "snapshot"
    /\ \E o \in NodeIds \ NewIds : \E n \in NewIds :
          /\ nodes[o].inner = nodes[n].inner
          /\ dependencies["Full"][o] # <<>>
          /\ dependencies["Full"][n] # <<>>
          /\ IsSome(Inner(n).assigns_to)
          /\ dependency_state[Get(Inner(n).assigns_to)] = n

\* ------------------------------------------------------------------ C36
\* The fire cycles of the entries of the delayed buffer.
FireCycles == {delayed_statement_buffer[k][1] : k \in DOMAIN delayed_statement_buffer}

\* C36: the snapshot that a node made for a vertex with assign_delay > 0 reads
\* exists when the node is resolved, the lookup never fails, and from the
\* activation of a cycle to the next read each entry of the delayed buffer fires
\* at a later cycle; no entry is ever overdue.
C36_SnapshotExists ==
    /\ pc # "panic"
    /\ Resolving => \A n \in NewDelayedIds :
          SnapshotKey(nodes[n].inner, Tau) \in DOMAIN dependency_state_snapshots
    /\ (InCycle \/ pc = "loop") => \A t \in FireCycles : t > Tau
    /\ \A t \in FireCycles : t >= Tau

\* A statement delayed by two cycles is resolved: the snapshot of its activation
\* cycle exists, and its entry stayed in the buffer over the cycle in between,
\* whose own entry of that statement is still in the buffer.
C36_Witness ==
    /\ pc = "snapshot"
    /\ \E n \in NewDelayedIds :
          /\ Inner(n).assign_delay = 2
          /\ (Tau - 2) \in DOMAIN dependency_state_snapshots
          /\ \E k \in DOMAIN delayed_statement_buffer :
                delayed_statement_buffer[k] = <<Tau + 1, nodes[n].inner>>

\* ------------------------------------------------------------------ C37
\* process has returned, with a node or with an error.
ProcessEnded == IsSome(result)

\* C37: on a finite stream process returns; each call of read_cycle_changes
\* advances current_time by one and nothing else changes it; and the loop is left
\* at the first test of its condition after the call that reported the end of
\* the stream, or after current_time * 2 has passed the budget.
C37_Terminates ==
    /\ <>ProcessEnded
    /\ [][/\ (pc = "read" /\ pc' = "activate") => current_time' = current_time + 1
          /\ ~(pc = "read" /\ pc' = "activate") => current_time' = current_time]_vars
    /\ [][(pc = "loop" /\ (eof_reached \/ ~WithinBudget)) => pc' = "finish"]_vars
    /\ [](pc \in {"read", "activate", "create", "resolve", "snapshot", "capture", "commit"}
             => current_time <= MaxTime)

\* The loop has been left after two iterations, the second of which reported
\* the end of the stream.
C37_Witness ==
    /\ pc = "finish" /\ eof_reached /\ current_time = 2 /\ WithinBudget
    /\ Len(nodes) > 0

\* ------------------------------------------------------------------ C38
\* The exported edges of mode m that dependency k of the node r yields.
EdgesOf(m, r, k) ==
    {j \in DOMAIN Graph(m).edges :
        /\ Graph(m).scanned_nodes[Graph(m).edges[j].from + 1] = r
        /\ Graph(m).scanned_nodes[Graph(m).edges[j].to + 1] = Ref(RefDeps(m, r)[k])
        /\ Graph(m).edges[j].kind = RefDeps(m, r)[k].kind}

\* C38: the conversion ends, on a graph with a cycle too; the vertex list holds
\* the nodes reachable from the root, the root first; the ends of each edge are
\* indices of the vertex list and the edge is a dependency of the node at its
\* from index; and each dependency of a reachable node yields an edge.
C38_ExportReachable ==
    pc = "exported" =>
        \A m \in Modes :
            /\ Graph(m).scanned_nodes[1] = Root
            /\ Len(Graph(m).vertices) = Len(Graph(m).scanned_nodes)
            /\ {Graph(m).scanned_nodes[i] : i \in DOMAIN Graph(m).scanned_nodes} = Reachable(m)
            /\ \A j \in DOMAIN Graph(m).edges :
                  /\ Graph(m).edges[j].from \in 0 .. Len(Graph(m).vertices) - 1
                  /\ Graph(m).edges[j].to \in 0 .. Len(Graph(m).vertices) - 1
                  /\ IsDependency(m, Graph(m).edges[j])
            /\ \A r \in Reachable(m) : \A k \in DOMAIN RefDeps(m, r) : EdgesOf(m, r, k) # {}

\* The graph converted holds a cycle: a node reachable from the root depends on
\* itself, the exported graph holds the edge from its index to its index, and the
\* root has a dependency.
C38_Witness ==
    /\ pc = "exported"
    /\ \E j \in DOMAIN Graph("Normal").edges :
          /\ Graph("Normal").edges[j].from = Graph("Normal").edges[j].to
          /\ Graph("Normal").edges[j].from # 0
    /\ RefDeps("Normal", Root) # <<>>
    /\ Graph("Normal").vertices[1].name = RefInner(Root).name

\* ------------------------------------------------------------------ C39
\* The symbol sym is combinational: no clocked vertex assigns it.
Combinational(sym) ==
    \A i \in DOMAIN pdg.vertices :
        pdg.vertices[i].assigns_to = Some(sym) => ~pdg.vertices[i].clocked

\* The nodes of the running cycle whose vertex assigns the combinational symbol
\* sym under a condition that holds: the writers of S[sym] in the creation loop.
WritersOf(sym) ==
    {w \in NewIds : /\ Inner(w).assigns_to = Some(sym)
                    /\ ConditionsSatisfied(Inner(w).condition, probe_values)}

\* C39: while a cycle is resolved every node of the cycle has been made, S holds
\* for each combinational symbol written in the cycle its last writer, and a
\* Data dependency of a node of the cycle on such a symbol points to that
\* writer, made before or after the consumer.
C39_ResolvesAfterCreation ==
    Resolving =>
        /\ Len(new_nodes) = Len(activated_statements)
        /\ \A m \in Modes : \A n \in NewIds : \A dep \in DepSet(m, n) :
              LET sym == Get(DepInner(dep).assigns_to)
                  writers == WritersOf(sym)
              IN  (dep.kind = "Data" /\ Combinational(sym) /\ writers # {}) =>
                      /\ dep.node \in writers
                      /\ \A w \in writers : w <= dep.node
                      /\ dependency_state[sym] = dep.node

\* A consumer is linked by a Data dependency to a writer activated after it: a
\* node of the running cycle with a greater index, of a combinational symbol.
C39_Witness ==
    /\ pc = "snapshot"
    /\ \E n \in NewIds : \E dep \in DepSet("Normal", n) :
          /\ dep.kind = "Data"
          /\ Combinational(Get(DepInner(dep).assigns_to))
          /\ dep.node \in NewIds
          /\ dep.node > n

====
